---------------------------- MODULE Spec2Model ----------------------------
(***************************************************************************)
(* A model of ChamferMatcher (src/Chamfer/src/Chamfer.cpp): the template   *)
(* store (setTemplateImages, setScale, saveTemplateData, loadTemplateData),*)
(* the search (computeMatchingMap, computeChamferDistance, detect_impl),   *)
(* the two entry points (detect, detectMultiScale) and groupDetections.    *)
(*                                                                         *)
(* Conventions.  A cv::Mat is a record [rows, cols, channels, data] whose  *)
(* data is the row-major, channel-interleaved byte sequence.  A float      *)
(* field (distance, orientation) is a function at[y][x] over 0-based       *)
(* coordinates.  A scale is an integer number of tenths (10 is 1.0f); the  *)
(* rounding of the float accumulation "scale += m_scaleStep" is not        *)
(* modelled.  A cost is a fraction <<numerator, denominator>>; <<0, 0>> is *)
(* the NaN that 0.0 / 0 produces.  An angle is an integer number of        *)
(* degrees.                                                                *)
(*                                                                         *)
(* OpenCV (Canny, findContours, distanceTransform, resize, minMaxLoc) is   *)
(* outside the repository.  Each is modelled by a small stand-in that      *)
(* keeps its interface: what the stand-in computes is stated where it is   *)
(* defined.                                                                *)
(***************************************************************************)
EXTENDS Integers, Sequences, FiniteSets, TLC

(***************************************************************************)
(* Program constants (ChamferMatcher::ChamferMatcher, lines 26-34).        *)
(***************************************************************************)
\* m_maxDescriptorDistanceError(10.0f)
m_maxDescriptorDistanceError == 10
\* m_maxDescriptorOrientationError(0.35f): 0.35 rad, 20 degrees
m_maxDescriptorOrientationError == 20
\* m_minNbDescriptorMatches(5)
m_minNbDescriptorMatches == 5
\* m_gridDescriptorSize(4,4)
m_gridDescriptorSize == 4
\* m_scaleMin(0.5f), m_scaleMax(2.0f), m_scaleStep(0.1f), in tenths
DefaultScaleMin == 5
DefaultScaleMax == 20
DefaultScaleStep == 1
\* computeMatchingMap(template_info, chamferMap, useOrientation, 5, 5, ...)
xStep == 5
yStep == 5
\* int maxLoopIterations = 100
maxLoopIterations == 100
\* std::numeric_limits<float>::max(): a stand-in above every cost of the model
FltMax == 1000000
\* the key 1.0f of the per-scale map, in tenths
ScaleOne == 10

(***************************************************************************)
(* Small helpers.                                                          *)
(***************************************************************************)
Abs(a) == IF a < 0 THEN -a ELSE a

Min2(a, b) == IF a <= b THEN a ELSE b

RECURSIVE SeqSum(_)
SeqSum(s) == IF s = <<>> THEN 0 ELSE Head(s) + SeqSum(Tail(s))

RECURSIVE Flatten(_)
Flatten(ss) == IF ss = <<>> THEN <<>> ELSE Head(ss) \o Flatten(Tail(ss))

SetMin(S) == CHOOSE m \in S : \A n \in S : m <= n

\* The elements of a finite set of integers in increasing order: the order in
\* which a std::map is iterated.
RECURSIVE SortedSeq(_)
SortedSeq(S) == IF S = {} THEN <<>> ELSE <<SetMin(S)>> \o SortedSeq(S \ {SetMin(S)})

Rect(x, y, w, h) == [x |-> x, y |-> y, width |-> w, height |-> h]

\* cv::Rect(): the rectangle a default-constructed Template_info_t carries.
NoRect == Rect(0, 0, 0, 0)

Point(x, y) == [x |-> x, y |-> y]

(***************************************************************************)
(* Fractions: the arithmetic of the double and float costs.                *)
(***************************************************************************)
RECURSIVE GCD(_, _)
GCD(a, b) == IF b = 0 THEN a ELSE GCD(b, a % b)

\* Lowest terms; a zero denominator is NaN (0/0) or +infinity (n/0, n > 0).
Normalize(c) ==
  IF c[2] = 0 THEN <<IF c[1] > 0 THEN 1 ELSE 0, 0>>
  ELSE LET g == GCD(Abs(c[1]), c[2]) IN <<c[1] \div g, c[2] \div g>>

IsNaN(c) == c[1] = 0 /\ c[2] = 0

IsInf(c) == c[1] > 0 /\ c[2] = 0

\* a < b on floats: false when either side is NaN.
FracLess(a, b) ==
  /\ ~IsNaN(a) /\ ~IsNaN(b) /\ ~IsInf(a)
  /\ (IsInf(b) \/ a[1] * b[2] < b[1] * a[2])

FracLeq(a, b) ==
  /\ ~IsNaN(a) /\ ~IsNaN(b)
  /\ (IsInf(b) \/ (~IsInf(a) /\ a[1] * b[2] <= b[1] * a[2]))

FracAdd(a, b) == Normalize(<<a[1] * b[2] + b[1] * a[2], a[2] * b[2]>>)

\* a / n for an integer n >= 0.
FracDivInt(a, n) == Normalize(<<a[1], a[2] * n>>)

FracOfInt(n) == <<n, 1>>

\* (int) of a non-negative double: truncation.
FracTrunc(a) == a[1] \div a[2]

RECURSIVE FracSum(_)
FracSum(s) == IF s = <<>> THEN FracOfInt(0) ELSE FracAdd(Head(s), FracSum(Tail(s)))

(***************************************************************************)
(* cv::Mat of bytes.                                                       *)
(***************************************************************************)
Mat(rows, cols, channels, data) ==
  [rows |-> rows, cols |-> cols, channels |-> channels, data |-> data]

\* The byte of channel c of the pixel (y, x).
MatByte(img, y, x, c) == img.data[(y * img.cols + x) * img.channels + c + 1]

\* cvRound(n / d) for n >= 0, d > 0: to the nearest integer, halves to even.
cvRound(n, d) ==
  LET q == n \div d
      r == n % d
  IN  IF 2 * r < d THEN q
      ELSE IF 2 * r > d THEN q + 1
      ELSE IF q % 2 = 0 THEN q ELSE q + 1

\* cv::resize(img, dst, cv::Size(), scale, scale): the destination has
\* cvRound(cols*scale) by cvRound(rows*scale) pixels.  Stand-in for the
\* interpolation: each destination pixel takes the source pixel its corner maps to.
resize(img, scale) ==
  LET rows == cvRound(img.rows * scale, ScaleOne)
      cols == cvRound(img.cols * scale, ScaleOne)
      srcY(y) == Min2((y * ScaleOne) \div scale, img.rows - 1)
      srcX(x) == Min2((x * ScaleOne) \div scale, img.cols - 1)
  IN  Mat(rows, cols, img.channels,
          [k \in 1..(rows * cols * img.channels) |->
             LET p == (k - 1) \div img.channels
                 c == (k - 1) % img.channels
             IN  MatByte(img, srcY(p \div cols), srcX(p % cols), c)])

(***************************************************************************)
(* Derived-representation builder.                                         *)
(***************************************************************************)
\* cv::Canny, stand-in: a pixel is an edge pixel when one of its channels is
\* not zero.  The result is the set of edge pixels (the zero pixels of the
\* inverted map that computeCanny hands to the distance transform).
computeCanny(img) ==
  {p \in [x : 0..(img.cols - 1), y : 0..(img.rows - 1)] :
     \E c \in 0..(img.channels - 1) : MatByte(img, p.y, p.x, c) # 0}

\* filterSingleContourPoint(contours, min): the default of min is declared in
\* Chamfer.hpp; the value is the one the specification gives.
MinContourPoints == 2

\* The maximal horizontal run of edge pixels that starts at (x, y).
RECURSIVE RunFrom(_, _, _, _)
RunFrom(edges, cols, x, y) ==
  IF x < cols /\ Point(x, y) \in edges
  THEN <<Point(x, y)>> \o RunFrom(edges, cols, x + 1, y)
  ELSE <<>>

\* cv::findContours, stand-in: one contour per maximal horizontal run of edge
\* pixels, rows from the top, runs from the left, points from the left.
RECURSIVE findContours(_, _, _, _)
findContours(edges, rows, cols, k) ==
  IF k >= rows * cols THEN <<>>
  ELSE LET x == k % cols
           y == k \div cols
           startsRun == Point(x, y) \in edges /\ (x = 0 \/ Point(x - 1, y) \notin edges)
       IN  IF startsRun
           THEN <<RunFrom(edges, cols, x, y)>> \o findContours(edges, rows, cols, k + 1)
           ELSE findContours(edges, rows, cols, k + 1)

filterSingleContourPoint(contours, min) ==
  SelectSeq(contours, LAMBDA c : Len(c) >= min)

getContours(img) ==
  filterSingleContourPoint(findContours(computeCanny(img), img.rows, img.cols, 0),
                           MinContourPoints)

\* getPolarLineEquation is defined in Utils.hpp.  The angle of the line through
\* two points: every contour of the model is a horizontal run, whose polar
\* angle is a right angle.
getPolarLineEquation(p1, p2) == IF p1.y = p2.y THEN 90 ELSE 0

\* One orientation per contour point: the angle of the line through the
\* previous and the next point; the first point takes the second's, the last
\* repeats its predecessor's; a contour of at most two points gets 0.
getContoursOrientation(contours) ==
  [i \in 1..Len(contours) |->
     LET c == contours[i]
         n == Len(c)
     IN  IF n > 2
         THEN [j \in 1..n |->
                 IF j = 1 THEN getPolarLineEquation(c[1], c[3])
                 ELSE IF j = n THEN getPolarLineEquation(c[n - 2], c[n])
                 ELSE getPolarLineEquation(c[j - 1], c[j + 1])]
         ELSE [j \in 1..n |-> 0]]

\* The city-block distance of two pixels.
PixelDist(p, q) == Abs(p.x - q.x) + Abs(p.y - q.y)

\* The edge pixel nearest to p, the first in row-major order among equals.
NearestEdge(edges, cols, p) ==
  LET d == SetMin({PixelDist(p, e) : e \in edges})
      k == SetMin({e.y * cols + e.x : e \in {f \in edges : PixelDist(p, f) = d}})
  IN  Point(k % cols, k \div cols)

\* cv::distanceTransform with DIST_LABEL_PIXEL, stand-in: the city-block
\* distance to the nearest edge pixel, and as label the row-major index of
\* that pixel plus one.  An image without edge pixels gets the largest
\* distance and the label 0 everywhere.
computeDistanceTransform(edges, rows, cols) ==
  [dist |-> [y \in 0..(rows - 1) |-> [x \in 0..(cols - 1) |->
               IF edges = {} THEN FltMax
               ELSE PixelDist(Point(x, y), NearestEdge(edges, cols, Point(x, y)))]],
   labels |-> [y \in 0..(rows - 1) |-> [x \in 0..(cols - 1) |->
               IF edges = {} THEN 0
               ELSE LET e == NearestEdge(edges, cols, Point(x, y))
                    IN  e.y * cols + e.x + 1]]]

\* computeEdgeMapIndex: label -> (contour, point), a later point of the same
\* label replacing an earlier one.  A label that no contour point carries is
\* absent: std::map::operator[] then yields the pair (0, 0), the first point
\* of the first contour (positions are 1-based here).
computeEdgeMapIndex(contours, labels, label) ==
  LET all  == UNION {{<<i, j>> : j \in 1..Len(contours[i])} : i \in 1..Len(contours)}
      hits == {ij \in all :
                 labels[contours[ij[1]][ij[2]].y][contours[ij[1]][ij[2]].x] = label}
  IN  IF hits = {} THEN <<1, 1>>
      ELSE CHOOSE ij \in hits :
             \A o \in hits : o[1] < ij[1] \/ (o[1] = ij[1] /\ o[2] <= ij[2])

\* The mark of a value read outside a vector; no angle of the model is
\* negative.
Indeterminate == -1

\* The mark of the outcome of such a read that ends the process.
Fault == -2

\* createMapOfEdgeOrientations: every pixel takes the orientation of the contour
\* point its label maps to.  With no contour the read edges_orientation[0][0]
\* of line 555 is outside the vector: the cell is then marked Indeterminate,
\* and the operation that prepares the image chooses what the read gave.
createMapOfEdgeOrientations(contours, edges_orientation, labels, rows, cols) ==
  [y \in 0..(rows - 1) |-> [x \in 0..(cols - 1) |->
     LET idx == computeEdgeMapIndex(contours, labels, labels[y][x])
     IN  IF idx[1] <= Len(edges_orientation) /\ idx[2] <= Len(edges_orientation[idx[1]])
         THEN edges_orientation[idx[1]][idx[2]]
         ELSE Indeterminate]]

\* The sparse (distance, orientation) signature of a template.  The
\* constructor of Template_info_t that samples it is declared in Chamfer.hpp:
\* a regular m_gridDescriptorSize by m_gridDescriptorSize grid of offsets
\* inside the template's bounds, as the specification describes it.
gridDescriptorsLocations(rows, cols) ==
  [k \in 1..(m_gridDescriptorSize * m_gridDescriptorSize) |->
     Point((((k - 1) % m_gridDescriptorSize) * cols) \div m_gridDescriptorSize,
           (((k - 1) \div m_gridDescriptorSize) * rows) \div m_gridDescriptorSize)]

\* prepareTemplate: the Template_info_t of an image; its two rectangles are
\* the default cv::Rect() until the caller assigns them.
prepareTemplate(img) ==
  LET edges    == computeCanny(img)
      dt       == computeDistanceTransform(edges, img.rows, img.cols)
      contours == getContours(img)
      ori      == getContoursOrientation(contours)
      oriMap   == createMapOfEdgeOrientations(contours, ori, dt.labels, img.rows, img.cols)
      locs     == gridDescriptorsLocations(img.rows, img.cols)
  IN  [m_contours                 |-> contours,
       m_distImg                  |-> [rows |-> img.rows, cols |-> img.cols, at |-> dt.dist],
       m_edgesOrientation         |-> ori,
       m_mapOfEdgeOrientation     |-> oriMap,
       m_gridDescriptorsLocations |-> locs,
       m_gridDescriptors          |-> [k \in 1..Len(locs) |->
                                         <<dt.dist[locs[k].y][locs[k].x],
                                           oriMap[locs[k].y][locs[k].x]>>],
       m_queryROI                 |-> NoRect,
       m_templateLocation         |-> NoRect]

\* prepareQuery: the Query_info_t of the query image.
prepareQuery(img) ==
  LET edges    == computeCanny(img)
      dt       == computeDistanceTransform(edges, img.rows, img.cols)
      contours == getContours(img)
      ori      == getContoursOrientation(contours)
  IN  [m_contours             |-> contours,
       m_distImg              |-> [rows |-> img.rows, cols |-> img.cols, at |-> dt.dist],
       m_edgesOrientation     |-> ori,
       m_mapOfEdgeOrientation |->
         createMapOfEdgeOrientations(contours, ori, dt.labels, img.rows, img.cols),
       m_img                  |-> img]

\* Query_info_t(): the query representation of a matcher that has seen no query.
NoQuery ==
  [m_contours |-> <<>>, m_distImg |-> [rows |-> 0, cols |-> 0, at |-> <<>>],
   m_edgesOrientation |-> <<>>, m_mapOfEdgeOrientation |-> <<>>,
   m_img |-> Mat(0, 0, 1, <<>>)]

(***************************************************************************)
(* Cost evaluator.                                                         *)
(***************************************************************************)
\* getMinAngleError is defined in Utils.hpp: the smaller of |a - b| and the
\* full turn minus |a - b|, as the specification gives it.
getMinAngleError(a, b) == Min2(Abs(a - b), 360 - Abs(a - b))

\* m_matchingType(edgeMatching), m_rejectionType(gridDescriptorRejection): the
\* values the constructor sets; no operation of Chamfer.cpp assigns them.
m_matchingType == "edgeMatching"

m_rejectionType == "gridDescriptorRejection"

\* The contour points of a shape with their orientations, in iteration order.
ContourPoints(info) ==
  Flatten([i \in 1..Len(info.m_contours) |->
             [j \in 1..Len(info.m_contours[i]) |->
                [x |-> info.m_contours[i][j].x, y |-> info.m_contours[i][j].y,
                 ori |-> info.m_edgesOrientation[i][j]]]])

\* mat.ptr<float>(y)[x] of a continuous matrix without a check of the
\* bounds: the element x places after the start of row y, which is a cell of
\* a later row while it lies in the matrix, and stray beyond its end.
InMatrix(mat, y, x) == y * mat.cols + x < mat.rows * mat.cols

ptrRead(mat, y, x, stray) ==
  IF InMatrix(mat, y, x)
  THEN mat.at[(y * mat.cols + x) \div mat.cols][(y * mat.cols + x) % mat.cols]
  ELSE stray

\* computeChamferDistance, classical edge matching (lines 184-252): the forward
\* pass sums, over the template's contour points, the query's distance at the
\* offset point, plus lambda times the orientation error when orientation is
\* used, and counts the points; the backward pass of
\* edgeForwardBackwardMatching sums the template's distance over the query's
\* contour points inside the template's footprint and counts nothing
\* ("j++, nbElements").  This is chamfer_dist at line 252.  Without
\* orientation the backward pass reads the template's distance at the point
\* of the query itself (line 238); stray is what such a read gives when it
\* falls outside the matrix.
chamferDistSum(template_info, query_info, matchingType, offsetX, offsetY, useOrientation, lambda, weight_forward, weight_backward, stray) ==
  LET tpts == ContourPoints(template_info)
      fwd  == [k \in 1..Len(tpts) |->
                 weight_forward *
                   ( query_info.m_distImg.at[tpts[k].y + offsetY][tpts[k].x + offsetX]
                   + IF useOrientation
                     THEN lambda * getMinAngleError(tpts[k].ori,
                            query_info.m_mapOfEdgeOrientation[tpts[k].y + offsetY][tpts[k].x + offsetX])
                     ELSE 0 )]
      qpts == ContourPoints(query_info)
      inside(q) == /\ offsetX <= q.x /\ q.x < offsetX + template_info.m_distImg.cols
                   /\ offsetY <= q.y /\ q.y < offsetY + template_info.m_distImg.rows
      bwd  == [k \in 1..Len(qpts) |->
                 IF ~inside(qpts[k]) THEN 0
                 ELSE IF useOrientation
                 THEN weight_backward *
                        ( template_info.m_distImg.at[qpts[k].y - offsetY][qpts[k].x - offsetX]
                        + lambda * getMinAngleError(qpts[k].ori,
                            template_info.m_mapOfEdgeOrientation[qpts[k].y - offsetY][qpts[k].x - offsetX]) )
                 ELSE weight_backward *
                        ptrRead(template_info.m_distImg, qpts[k].y, qpts[k].x, stray)]
  IN  SeqSum(fwd) + IF matchingType = "edgeForwardBackwardMatching" THEN SeqSum(bwd) ELSE 0

\* computeChamferDistance, classical edge matching: the sum over nbElements,
\* which the forward pass alone has counted (line 252).
computeChamferDistance(template_info, query_info, matchingType, offsetX, offsetY, useOrientation, lambda, weight_forward, weight_backward, stray) ==
  LET chamfer_dist == chamferDistSum(template_info, query_info, matchingType, offsetX, offsetY,
                                     useOrientation, lambda, weight_forward, weight_backward,
                                     stray)
      nbElements   == Len(ContourPoints(template_info))
  IN  Normalize(<<chamfer_dist, nbElements>>)

(***************************************************************************)
(* Search engine.                                                          *)
(***************************************************************************)
\* The indexes "for(int i = start; i < end; i += step)" visits.
Visited(start, end, step) == {i \in start..(end - 1) : (i - start) % step = 0}

\* The number of grid descriptors of the template that match the query at the
\* offset (j, i) (lines 439-453).
nbDescriptorMatches(template_info, query_info, i, j) ==
  Cardinality({cpt \in 1..Len(template_info.m_gridDescriptorsLocations) :
    LET location == Point(template_info.m_gridDescriptorsLocations[cpt].x + j,
                          template_info.m_gridDescriptorsLocations[cpt].y + i)
        query_dist == query_info.m_distImg.at[location.y][location.x]
        query_orientation == query_info.m_mapOfEdgeOrientation[location.y][location.x]
        template_dist == template_info.m_gridDescriptors[cpt][1]
        template_orientation == template_info.m_gridDescriptors[cpt][2]
    IN  /\ Abs(query_dist - template_dist) < m_maxDescriptorDistanceError
        /\ Abs(query_orientation - template_orientation) < m_maxDescriptorOrientationError})

\* Line 455 with "<=" for "<".
rejectedOrEqual(nbMatches) == nbMatches <= m_minNbDescriptorMatches

\* Line 455: the offset is rejected.
rejected(nbMatches) == nbMatches < m_minNbDescriptorMatches

\* The search bounds (lines 416-428).
SearchBounds(template_info, strategyType, chamferMapWidth, chamferMapHeight) ==
  IF strategyType = "templatePoseMatching"
  THEN [startI |-> template_info.m_templateLocation.y,
        endI   |-> template_info.m_templateLocation.y + 1,
        startJ |-> template_info.m_templateLocation.x,
        endJ   |-> template_info.m_templateLocation.x + 1]
  ELSE [startI |-> template_info.m_queryROI.y,
        endI   |-> IF template_info.m_queryROI.height > 0
                   THEN template_info.m_queryROI.y + template_info.m_queryROI.height
                   ELSE chamferMapHeight,
        startJ |-> template_info.m_queryROI.x,
        endJ   |-> IF template_info.m_queryROI.width > 0
                   THEN template_info.m_queryROI.x + template_info.m_queryROI.width
                   ELSE chamferMapWidth]

\* The empty cv::Mat.
EmptyMap == [rows |-> 0, cols |-> 0, at |-> <<>>]

\* computeMatchingMap: the map of costs, the maximum float wherever no cost is
\* written, every cell computed once ("@@ <<>>" tabulates a function).  The two parallel loops write disjoint cells and are modelled by
\* their sequential result.  A visited offset outside the map is an access
\* outside the two matrices, which SearchOutcomes accounts for: the map
\* returned here is that of the run in which those accesses did no harm.
computeMatchingMap(template_info, query_info, strategyType, useOrientation, lambda, weight_forward, weight_backward) ==
  LET chamferMapWidth  == query_info.m_distImg.cols - template_info.m_distImg.cols + 1
      chamferMapHeight == query_info.m_distImg.rows - template_info.m_distImg.rows + 1
      b == SearchBounds(template_info, strategyType, chamferMapWidth, chamferMapHeight)
      visitedI == Visited(b.startI, b.endI, yStep)
      visitedJ == Visited(b.startJ, b.endJ, xStep)
      rejection_mask(i, j) ==
        IF /\ m_rejectionType = "gridDescriptorRejection"
           /\ i \in visitedI /\ j \in visitedJ
           /\ rejected(nbDescriptorMatches(template_info, query_info, i, j))
        THEN 0 ELSE 1
  IN  IF chamferMapWidth <= 0 \/ chamferMapHeight <= 0 THEN EmptyMap
      ELSE [rows |-> chamferMapHeight, cols |-> chamferMapWidth,
            at |-> [i \in 0..(chamferMapHeight - 1) |-> [j \in 0..(chamferMapWidth - 1) |->
                      IF i \in visitedI /\ j \in visitedJ /\ rejection_mask(i, j) # 0
                      THEN computeChamferDistance(template_info, query_info, m_matchingType,
                             j, i, useOrientation, lambda, weight_forward, weight_backward, 0)
                      ELSE FracOfInt(FltMax)] @@ <<>>] @@ <<>>]

(***************************************************************************)
(* Detection extractor.                                                    *)
(***************************************************************************)
\* Detection_t(boundingBox, chamferDist, scale, templateIndex); the index of a
\* detection that none was given to is -1.
Detection_t(boundingBox, chamferDist, scale, templateIndex) ==
  [m_boundingBox |-> boundingBox, m_chamferDist |-> chamferDist,
   m_scale |-> scale, m_templateIndex |-> templateIndex]

\* cv::minMaxLoc, minimum only: the least value of the map and the first cell,
\* in row-major order, that holds it.  A NaN compares below nothing and is
\* passed over; a map of NaN alone gives the maximum float and the first cell.
minMaxLoc(map) ==
  LET all   == {<<map.at[y][x], y * map.cols + x>> :
                  x \in 0..(map.cols - 1), y \in 0..(map.rows - 1)}
      cells == {c \in all : ~IsNaN(c[1])}
      best  == IF cells = {} THEN <<FracOfInt(FltMax), 0>>
               ELSE CHOOSE c \in cells : \A o \in cells :
                      FracLess(c[1], o[1]) \/ (~FracLess(o[1], c[1]) /\ c[2] <= o[2])
  IN  [minVal |-> best[1], minLoc |-> Point(best[2] % map.cols, best[2] \div map.cols)]

\* The plausible slip of comparing the wrong way round, on the cells the loop
\* has not reset yet.
belowThresholdInverted(minVal, distanceThresh) ==
  FracLess(FracOfInt(distanceThresh), minVal) /\ FracLess(minVal, FracOfInt(FltMax))

\* The plausible slip of "minVal <= distanceThresh".
belowThresholdOrEqual(minVal, distanceThresh) == FracLeq(minVal, FracOfInt(distanceThresh))

\* "minVal < distanceThresh" of lines 601 and 607.
belowThreshold(minVal, distanceThresh) == FracLess(minVal, FracOfInt(distanceThresh))

\* One pass of the body of the do-while loop of detect_impl (lines 589-607),
\* entered with the number of passes already made: the state it leaves, and
\* whether the condition of line 607 asks for another pass.
ExtractStep(chamferMap, template_info, scale, distanceThresh, iteration, all_detections) ==
  LET it    == iteration + 1
      m     == minMaxLoc(chamferMap)
      reset == [chamferMap EXCEPT !.at[m.minLoc.y][m.minLoc.x] = FracOfInt(FltMax)]
      below == belowThreshold(m.minVal, distanceThresh)
      dets  == IF below
               THEN Append(all_detections,
                      Detection_t(Rect(m.minLoc.x, m.minLoc.y, template_info.m_distImg.cols,
                                       template_info.m_distImg.rows),
                                  m.minVal, FracOfInt(scale), -1))
               ELSE all_detections
  IN  [chamferMap |-> reset, iteration |-> it, all_detections |-> dets,
       again |-> below /\ it <= maxLoopIterations]

\* The do-while loop of detect_impl (lines 588-607).
RECURSIVE ExtractLoop(_, _, _, _, _, _)
ExtractLoop(chamferMap, template_info, scale, distanceThresh, iteration, all_detections) ==
  LET r == ExtractStep(chamferMap, template_info, scale, distanceThresh, iteration,
                       all_detections)
  IN  IF r.again
      THEN ExtractLoop(r.chamferMap, template_info, scale, distanceThresh, r.iteration,
                       r.all_detections)
      ELSE r.all_detections

(***************************************************************************)
(* Clustering.                                                             *)
(***************************************************************************)
\* cv::Rect operator&: the intersection, the empty rectangle when there is none.
RectIntersect(a, b) ==
  LET x1 == IF a.x >= b.x THEN a.x ELSE b.x
      y1 == IF a.y >= b.y THEN a.y ELSE b.y
      w  == Min2(a.x + a.width, b.x + b.width) - x1
      h  == Min2(a.y + a.height, b.y + b.height) - y1
  IN  IF w <= 0 \/ h <= 0 THEN NoRect ELSE Rect(x1, y1, w, h)

RectArea(r) == r.width * r.height

\* overlapping_percentage of lines 866-868: intersection over union.
overlapping_percentage(r1, r2) ==
  LET r_intersect == RectIntersect(r1, r2)
  IN  Normalize(<<RectArea(r_intersect),
                  RectArea(r1) + RectArea(r2) - RectArea(r_intersect)>>)

\* The inner loop of groupDetections (lines 863-875) from cpt2 on.  A cluster
\* is kept as the positions of its members in the input, in the order the
\* code pushes their copies.
RECURSIVE AbsorbLoop(_, _, _, _, _, _)
AbsorbLoop(detections, overlapPercentage, cpt1, cpt2, already_picked, current_detections) ==
  IF cpt2 > Len(detections)
  THEN [already_picked |-> already_picked, current_detections |-> current_detections]
  ELSE IF /\ ~already_picked[cpt2]
          /\ FracLess(overlapPercentage,
                      overlapping_percentage(detections[cpt1].m_boundingBox,
                                             detections[cpt2].m_boundingBox))
       THEN AbsorbLoop(detections, overlapPercentage, cpt1, cpt2 + 1,
                       [already_picked EXCEPT ![cpt2] = TRUE],
                       Append(current_detections, cpt2))
       ELSE AbsorbLoop(detections, overlapPercentage, cpt1, cpt2 + 1,
                       already_picked, current_detections)

\* The outer loop of groupDetections (lines 856-879) from cpt1 on.
RECURSIVE ClusterLoop(_, _, _, _, _)
ClusterLoop(detections, overlapPercentage, cpt1, already_picked, clustered_detections) ==
  IF cpt1 > Len(detections) THEN clustered_detections
  ELSE IF ~already_picked[cpt1]
       THEN LET r == AbsorbLoop(detections, overlapPercentage, cpt1, cpt1 + 1,
                                [already_picked EXCEPT ![cpt1] = TRUE], <<cpt1>>)
            IN  ClusterLoop(detections, overlapPercentage, cpt1 + 1, r.already_picked,
                            Append(clustered_detections, r.current_detections))
       ELSE ClusterLoop(detections, overlapPercentage, cpt1 + 1, already_picked,
                        clustered_detections)

\* The plausible slip of never entering the inner loop: every detection is
\* the only member of its cluster.
clusterDetectionsNoAbsorb(detections, overlapPercentage) ==
  [k \in 1..Len(detections) |-> <<k>>]

\* The plausible slip of an outer loop that does not skip the detections
\* picked already.
RECURSIVE ClusterLoopUnchecked(_, _, _, _, _)
ClusterLoopUnchecked(detections, overlapPercentage, cpt1, already_picked, clustered_detections) ==
  IF cpt1 > Len(detections) THEN clustered_detections
  ELSE LET r == AbsorbLoop(detections, overlapPercentage, cpt1, cpt1 + 1,
                           [already_picked EXCEPT ![cpt1] = TRUE], <<cpt1>>)
       IN  ClusterLoopUnchecked(detections, overlapPercentage, cpt1 + 1, r.already_picked,
                                Append(clustered_detections, r.current_detections))

clusterDetectionsUnchecked(detections, overlapPercentage) ==
  ClusterLoopUnchecked(detections, overlapPercentage, 1,
                       [i \in 1..Len(detections) |-> FALSE], <<>>)

\* clustered_detections after the first loop of groupDetections.
clusterDetections(detections, overlapPercentage) ==
  ClusterLoop(detections, overlapPercentage, 1,
              [i \in 1..Len(detections) |-> FALSE], <<>>)

\* The template index with the most members in the cluster, the least one
\* among equals (lines 900-907).
maxOccurrenceIndex(detections, cluster) ==
  LET ids == {detections[cluster[k]].m_templateIndex : k \in 1..Len(cluster)}
      occ(id) == Cardinality({k \in 1..Len(cluster) :
                                detections[cluster[k]].m_templateIndex = id})
  IN  CHOOSE id \in ids : \A o \in ids : occ(o) < occ(id) \/ (occ(o) = occ(id) /\ id <= o)

\* The detection one cluster collapses to (lines 883-911).
clusterRepresentative(detections, cluster) ==
  LET n     == Len(cluster)
      first == detections[cluster[1]]
      xMean == <<SeqSum([k \in 1..n |-> detections[cluster[k]].m_boundingBox.x]), n>>
      yMean == <<SeqSum([k \in 1..n |-> detections[cluster[k]].m_boundingBox.y]), n>>
      distMean  == FracDivInt(FracSum([k \in 1..n |-> detections[cluster[k]].m_chamferDist]), n)
      scaleMean == FracDivInt(FracSum([k \in 1..n |-> detections[cluster[k]].m_scale]), n)
  IN  Detection_t(Rect(FracTrunc(xMean), FracTrunc(yMean),
                       first.m_boundingBox.width, first.m_boundingBox.height),
                  distMean, scaleMean, maxOccurrenceIndex(detections, cluster))

\* groupDetections: one representative per cluster, pushed after what
\* groupedDetections already holds.
groupDetections(detections, groupedDetections, overlapPercentage) ==
  LET clustered_detections == clusterDetections(detections, overlapPercentage)
  IN  groupedDetections \o
      [k \in 1..Len(clustered_detections) |->
         clusterRepresentative(detections, clustered_detections[k])]

\* The default of overlapPercentage is declared in Chamfer.hpp; the value is
\* the one the specification gives (0.5).
DefaultOverlapPercentage == <<1, 2>>

(***************************************************************************)
(* Non-maxima suppression.                                                 *)
(***************************************************************************)
\* less_than_area is declared in Chamfer.hpp: by increasing area of the
\* bounding box, as the comment of line 1031 and the specification say.
less_than_area(a, b) == RectArea(a.m_boundingBox) < RectArea(b.m_boundingBox)

\* std::sort with less_than_area (line 1032): the orders it can leave the
\* copy in, as the positions of the input; the order of detections of equal
\* area is not determined.
AreaSorts(detections) ==
  {p \in [1..Len(detections) -> 1..Len(detections)] :
     /\ \A i \in 1..Len(detections), j \in 1..Len(detections) : i # j => p[i] # p[j]
     /\ \A i \in 1..Len(detections), j \in 1..Len(detections) :
          i < j => ~less_than_area(detections[p[j]], detections[p[i]])}

\* The plausible slip of comparing the edges with <= and >=.
isInsideOrTouching(r1, r2) ==
  /\ r1.x + r1.width <= r2.x + r2.width /\ r1.x >= r2.x
  /\ r1.y + r1.height <= r2.y + r2.height /\ r1.y >= r2.y

\* The condition of line 1042.
isInside(r1, r2) ==
  /\ r1.x + r1.width < r2.x + r2.width /\ r1.x > r2.x
  /\ r1.y + r1.height < r2.y + r2.height /\ r1.y > r2.y

\* nonMaximaSuppression after the sort (lines 1035-1050): a detection of the
\* sorted copy is pushed unless its box is inside the box of a later one.
nonMaximaSuppressionLoop(detections_copy, maximaDetections) ==
  LET kept == SelectSeq([cpt1 \in 1..Len(detections_copy) |-> cpt1],
                        LAMBDA cpt1 :
                          ~\E cpt2 \in (cpt1 + 1)..Len(detections_copy) :
                              isInside(detections_copy[cpt1].m_boundingBox,
                                       detections_copy[cpt2].m_boundingBox))
  IN  maximaDetections \o [k \in 1..Len(kept) |-> detections_copy[kept[k]]]

(***************************************************************************)
(* Ordering of detections.                                                 *)
(***************************************************************************)
\* Detection_t::operator< is declared in Chamfer.hpp: by increasing cost, as
\* the comments of lines 616, 665 and 724 and the specification say.
DetectionLess(a, b) == FracLess(a.m_chamferDist, b.m_chamferDist)

\* std::sort: a permutation ordered by operator<.  Which of two detections of
\* equal cost comes first is not determined by std::sort; the model keeps the
\* order they came in.  SortRank is the position a detection is moved to.
SortRank(dets, k) ==
  1 + Cardinality({o \in 1..Len(dets) :
                     \/ DetectionLess(dets[o], dets[k])
                     \/ (o < k /\ ~DetectionLess(dets[k], dets[o]))})

StdSort(dets) ==
  LET rank == [k \in 1..Len(dets) |-> SortRank(dets, k)] @@ <<>>
  IN  [p \in 1..Len(dets) |-> dets[CHOOSE k \in 1..Len(dets) : rank[k] = p]]

(***************************************************************************)
(* Inputs of the model.                                                    *)
(***************************************************************************)
TemplateIds == {1, 2}

\* Template images of 2 rows by 4 columns whose first row is an edge: one
\* grey, one of three channels with a second, shorter edge, one of four
\* channels.
TplGray == Mat(2, 4, 1, <<255, 255, 255, 255, 0, 0, 0, 0>>)

TplBGR == Mat(2, 4, 3, <<255, 0, 0, 255, 0, 0, 255, 0, 0, 255, 0, 0,
                        0, 0, 255, 0, 0, 255, 0, 0, 0, 0, 0, 0>>)

TplBGRA == Mat(2, 4, 4, <<255, 255, 255, 255, 255, 255, 255, 255,
                         255, 255, 255, 255, 255, 255, 255, 255,
                         0, 0, 0, 0, 0, 0, 0, 0, 0, 0, 0, 0, 0, 0, 0, 0>>)

\* A template of one edge pixel: its only contour has a single point, which
\* filterSingleContourPoint removes.
TplDot == Mat(2, 4, 1, <<0, 255, 0, 0, 0, 0, 0, 0>>)

TemplateImages == {TplGray, TplBGR, TplBGRA, TplDot}

\* (template location, query ROI): search everywhere, or only at column 5.
RoiEverywhere == <<Rect(0, 0, 4, 2), Rect(0, 0, 0, 0)>>

RoiColumn5 == <<Rect(5, 0, 4, 2), Rect(5, 0, 1, 1)>>


\* The maps a caller can pass: a function from some of the ids.
MapsInto(S) == UNION {[ids -> S] : ids \in SUBSET TemplateIds}

\* Arguments of setScale, in tenths: 0 is invalid.
ScaleArgs == {0, 5, 10}

\* Query images of 4 rows by 14 columns, high enough for the templates at
\* every scale of the default range.  QueryA holds the first row of the
\* templates at column 5 and short edges in the corners of the last row;
\* QueryB holds it at column 0.
QueryA == Mat(4, 14, 1, <<0, 0, 0, 0, 0, 255, 255, 255, 255, 0, 0, 0, 0, 0,
                         0, 0, 0, 0, 0, 0, 0, 0, 0, 0, 0, 0, 0, 0,
                         0, 0, 0, 0, 0, 0, 0, 0, 0, 0, 0, 0, 0, 0,
                         255, 255, 0, 0, 0, 0, 0, 0, 0, 0, 0, 0, 255, 255>>)

QueryB == Mat(4, 14, 1, <<255, 255, 255, 255, 0, 0, 0, 0, 0, 0, 0, 0, 0, 0,
                         0, 0, 0, 0, 0, 0, 0, 0, 0, 0, 0, 0, 0, 0,
                         0, 0, 0, 0, 0, 0, 0, 0, 0, 0, 0, 0, 0, 0,
                         0, 0, 0, 0, 0, 0, 0, 0, 0, 0, 0, 0, 0, 0>>)

QueryImages == {QueryA, QueryB}

DistanceThresholds == {1, 4, 9}

Lambdas == {1}

ForwardWeights == {1}

BackwardWeights == {1}

MatchingStrategyTypes == {"templateMatching", "templatePoseMatching"}

(***************************************************************************)
(* The matcher.                                                            *)
(***************************************************************************)
VARIABLES
  m_mapOfTemplate_info,     \* id -> (scale -> Template_info_t)
  m_mapOfTemplateImages,    \* id -> cv::Mat
  m_scaleMin, m_scaleMax, m_scaleStep,
  m_matchingStrategyType,
  m_query_info,             \* Query_info_t of the last query
  file,                     \* the template-store file: [exists, content]
  detections,               \* the caller's output vector of the last detect call
  fault,                    \* the process has died of an access outside a vector
  call,                     \* the operation called last
  cerr,                     \* the error that operation reported, "" if none
  g_detections,             \* groupDetections: the input built so far
  g_overlapPercentage,      \* groupDetections: the overlap threshold
  g_clustered,              \* groupDetections: clustered_detections
  g_grouped,                \* groupDetections: groupedDetections
  g_done,                   \* groupDetections or nonMaximaSuppression has run
  n_maxima,                 \* nonMaximaSuppression: maximaDetections
  e_pc,                     \* the extraction loop: "idle", "loop" or "done"
  e_chamferMap,             \* the extraction loop: the cost map
  e_distanceThresh,         \* the extraction loop: the threshold
  e_iteration,              \* the extraction loop: iteration
  e_all_detections,         \* the extraction loop: all_detections
  c_args,                   \* computeChamferDistance: the arguments of the call
  c_cost,                   \* computeChamferDistance: the cost returned
  s_matchingType,           \* the scoring of an offset: m_matchingType as set
  s_evaluated,              \* the scoring of an offset: what scored it
  t_run,                    \* the parallel loops: the arguments and bounds of the run
  t_pc,                     \* the parallel loops: thread -> [loop, busy, i, j]
  t_todo,                   \* the parallel loops: loop -> rows no thread has taken
  t_rejection_mask,         \* the parallel loops: rejection_mask
  t_chamferMap,             \* the parallel loops: chamferMap
  t_log,                    \* the parallel loops: the accesses to the two matrices
  t_result                  \* the parallel loops: the map the extractor has read

storeVars == <<m_mapOfTemplate_info, m_mapOfTemplateImages, m_scaleMin, m_scaleMax,
               m_scaleStep, file>>

searchVars == <<m_matchingStrategyType, m_query_info, detections, fault>>

extractVars == <<e_pc, e_chamferMap, e_distanceThresh, e_iteration, e_all_detections>>

\* The variables of the runs of groupDetections, nonMaximaSuppression, the
\* extraction loop, computeChamferDistance, the scoring of an offset and the
\* threads of the parallel loops on their own.
chamferVars == <<c_args, c_cost>>

dispatchVars == <<s_matchingType, s_evaluated>>

threadVars == <<t_run, t_pc, t_todo, t_rejection_mask, t_chamferMap, t_log, t_result>>

groupVars == <<g_detections, g_overlapPercentage, g_clustered, g_grouped, g_done, n_maxima,
               extractVars, chamferVars, dispatchVars, threadVars>>

vars == <<storeVars, searchVars, call, cerr, groupVars>>

\* The empty std::map.
EmptyMapOf == [k \in {} |-> 0]

\* m[k] = v of a std::map.
MapPut(m, k, v) == [x \in DOMAIN m \cup {k} |-> IF x = k THEN v ELSE m[x]]

\* The images the model prepares templates of: the inputs, and what
\* loadTemplateData reads back of them.
LoadedView(img) ==
  LET channels == IF img.channels = 3 THEN 3 ELSE 1
  IN  Mat(img.rows, img.cols, channels,
          SubSeq(img.data, 1, img.rows * img.cols * channels))

PreparedImages == TemplateImages \cup {LoadedView(img) : img \in TemplateImages}

PreparedScales == DefaultScaleMin..DefaultScaleMax

\* prepareTemplate of the image resized by the scale, tabulated once.
PreparedTable ==
  [k \in PreparedImages \X PreparedScales |-> prepareTemplate(resize(k[1], k[2]))] @@ <<>>

prepareScaled(img, scale) ==
  IF img \in PreparedImages /\ scale \in PreparedScales
  THEN PreparedTable[<<img, scale>>]
  ELSE prepareTemplate(resize(img, scale))

\* The sweep without the test of fabsf(scale - 1.0f).
ScaleSweepThroughOne(min, max, step) ==
  {scale \in min..max : (scale - min) % step = 0}

\* The scales "for(scale = m_scaleMin; scale <= m_scaleMax; scale += m_scaleStep)"
\* prepares: those with fabsf(scale - 1.0f)*100.0f > m_scaleStep.
ScaleSweep(min, max, step) ==
  {scale \in min..max : (scale - min) % step = 0 /\ Abs(scale - ScaleOne) * 100 > step}

\* The entries the sweep assigns in the per-scale map of one template.
SweepInto(perScale, img, min, max, step) ==
  [scale \in DOMAIN perScale \cup ScaleSweep(min, max, step) |->
     IF scale \in ScaleSweep(min, max, step) THEN prepareScaled(img, scale)
     ELSE perScale[scale]]

(***************************************************************************)
(* Reads outside the vector of orientations.                               *)
(***************************************************************************)
\* What the read edges_orientation[idx1][idx2] of line 555 can do when the
\* vector holds no such element: end the process, or give whatever float
\* lies there (idx1 and idx2 are the same at every pixel of an image without
\* contours, so every pixel gets the same value).
OutOfVectorReads == {Fault, 0, 45}

\* An orientation field holds a value read outside the vector: the read is
\* the same at every pixel, so the first pixel tells.
HasIndeterminate(info) ==
  /\ info.m_distImg.rows > 0 /\ info.m_distImg.cols > 0
  /\ info.m_mapOfEdgeOrientation[0][0] = Indeterminate

\* The outcomes of building the orientation field of info.
ReadsOf(info) == IF HasIndeterminate(info) THEN OutOfVectorReads ELSE {0}

\* info with the value read outside the vector in place.
resolveRead(info, read) ==
  IF ~HasIndeterminate(info) THEN info
  ELSE [info EXCEPT !.m_mapOfEdgeOrientation =
          [y \in DOMAIN @ |-> [x \in DOMAIN @[y] |-> read]]]

\* The same for a template, whose grid descriptors are sampled from the field.
resolveTemplateRead(info, read) ==
  IF ~HasIndeterminate(info) THEN info
  ELSE [info EXCEPT !.m_mapOfEdgeOrientation =
                       [y \in DOMAIN @ |-> [x \in DOMAIN @[y] |-> read]],
                    !.m_gridDescriptors = [k \in DOMAIN @ |-> <<@[k][1], read>>]]

\* The outcomes of the calls of prepareTemplate that built the entries of a
\* template collection, and the collection with the value read in place.
StoreReadsOf(info) ==
  IF \E id \in DOMAIN info : \E scale \in DOMAIN info[id] : HasIndeterminate(info[id][scale])
  THEN OutOfVectorReads ELSE {0}

resolveStore(info, read) ==
  [id \in DOMAIN info |-> [scale \in DOMAIN info[id] |->
     resolveTemplateRead(info[id][scale], read)]]

(***************************************************************************)
(* Template store: setTemplateImages, setScale.                            *)
(***************************************************************************)
\* The loop of setTemplateImages (lines 1313-1344) over the ids that remain.
\* It returns at the first id without rois, after that id's image and its
\* entry of scale 1.0 were stored; the message then reads it_roi->first of
\* the end iterator, an indeterminate id that the model leaves out.
RECURSIVE setTemplateImagesLoop(_, _, _, _, _, _, _, _)
setTemplateImagesLoop(ids, mapOfTemplateImages, mapOfTemplateRois, info, images, min, max, step) ==
  IF ids = <<>> THEN [info |-> info, images |-> images, cerr |-> ""]
  ELSE
    LET id       == Head(ids)
        img      == mapOfTemplateImages[id]
        images1  == MapPut(images, id, img)
        perScale == IF id \in DOMAIN info THEN info[id] ELSE EmptyMapOf
        atOne    == MapPut(perScale, ScaleOne, prepareScaled(img, ScaleOne))
    IN  IF id \notin DOMAIN mapOfTemplateRois
        THEN [info |-> MapPut(info, id, atOne), images |-> images1,
              cerr |-> "The id does not exist in template rois!"]
        ELSE
          LET located == [atOne EXCEPT
                            ![ScaleOne].m_templateLocation = mapOfTemplateRois[id][1],
                            ![ScaleOne].m_queryROI = mapOfTemplateRois[id][2]]
              swept   == SweepInto(located, img, min, max, step)
          IN  setTemplateImagesLoop(Tail(ids), mapOfTemplateImages, mapOfTemplateRois,
                                    MapPut(info, id, swept), images1, min, max, step)

\* What setTemplateImages leaves in the two maps, and the error it reports:
\* both maps are cleared before the sizes are compared.
setTemplateImagesResult(mapOfTemplateImages, mapOfTemplateRois, min, max, step) ==
  IF Cardinality(DOMAIN mapOfTemplateImages) # Cardinality(DOMAIN mapOfTemplateRois)
  THEN [info |-> EmptyMapOf, images |-> EmptyMapOf,
        cerr |-> "Different size between templates and rois!"]
  ELSE setTemplateImagesLoop(SortedSeq(DOMAIN mapOfTemplateImages), mapOfTemplateImages,
                             mapOfTemplateRois, EmptyMapOf, EmptyMapOf, min, max, step)

setTemplateImages(mapOfTemplateImages, mapOfTemplateRois) ==
  LET r == setTemplateImagesResult(mapOfTemplateImages, mapOfTemplateRois,
                                   m_scaleMin, m_scaleMax, m_scaleStep)
  IN  /\ call' = "setTemplateImages"
      /\ \E read \in StoreReadsOf(r.info) :
           IF read = Fault
           THEN fault' = TRUE /\ UNCHANGED <<cerr, m_mapOfTemplate_info, m_mapOfTemplateImages>>
           ELSE /\ cerr' = r.cerr
                /\ m_mapOfTemplate_info' = resolveStore(r.info, read)
                /\ m_mapOfTemplateImages' = r.images
                /\ UNCHANGED fault
      /\ UNCHANGED <<m_scaleMin, m_scaleMax, m_scaleStep, file, m_matchingStrategyType,
                     m_query_info, detections, groupVars>>

\* The plausible slip of leaving out "max >= min".
setScaleAcceptsAnyOrder(min, max, step) == min > 0 /\ max > 0 /\ step > 0

\* The condition of line 1272.
setScaleAccepts(min, max, step) == min > 0 /\ max > 0 /\ max >= min /\ step > 0

\* setScale: a valid range is stored and every template that has an image is
\* swept again; the entries it already has at other scales stay.
setScale(min, max, step) ==
  LET swept == [id \in DOMAIN m_mapOfTemplate_info |->
                  IF id \in DOMAIN m_mapOfTemplateImages
                  THEN SweepInto(m_mapOfTemplate_info[id], m_mapOfTemplateImages[id],
                                 min, max, step)
                  ELSE m_mapOfTemplate_info[id]]
  IN  /\ call' = "setScale"
      /\ IF setScaleAccepts(min, max, step)
         THEN \E read \in StoreReadsOf(swept) :
                IF read = Fault
                THEN /\ fault' = TRUE
                     /\ UNCHANGED <<m_scaleMin, m_scaleMax, m_scaleStep, m_mapOfTemplate_info,
                                    cerr>>
                ELSE /\ m_scaleMin' = min
                     /\ m_scaleMax' = max
                     /\ m_scaleStep' = step
                     /\ m_mapOfTemplate_info' = resolveStore(swept, read)
                     /\ cerr' = IF DOMAIN m_mapOfTemplate_info \subseteq
                                     DOMAIN m_mapOfTemplateImages
                                THEN "" ELSE "Cannot find the template image!"
                     /\ UNCHANGED fault
         ELSE /\ UNCHANGED <<m_scaleMin, m_scaleMax, m_scaleStep, m_mapOfTemplate_info, fault>>
              /\ cerr' = "Invalid scale parameter !"
      /\ UNCHANGED <<m_mapOfTemplateImages, file, m_matchingStrategyType, m_query_info,
                     detections, groupVars>>

(***************************************************************************)
(* Template store: saveTemplateData, loadTemplateData.  The file is the    *)
(* sequence of the values written: one element per int and per byte.       *)
(***************************************************************************)
RectInts(r) == <<r.x, r.y, r.width, r.height>>

\* What saveTemplateData writes for one template (lines 1204-1262): the id,
\* and the rest only when the entry of scale 1.0 and the image are found.
saveTemplateRecord(info, images, id) ==
  <<id>> \o
  IF ScaleOne \in DOMAIN info[id] /\ id \in DOMAIN images
  THEN <<images[id].rows, images[id].cols, images[id].channels>>
       \o SubSeq(images[id].data, 1, images[id].rows * images[id].cols * images[id].channels)
       \o RectInts(info[id][ScaleOne].m_templateLocation)
       \o RectInts(info[id][ScaleOne].m_queryROI)
  ELSE <<>>

saveTemplateContent(info, images) ==
  LET ids == SortedSeq(DOMAIN info)
  IN  <<Cardinality(DOMAIN info)>> \o
      Flatten([k \in 1..Len(ids) |-> saveTemplateRecord(info, images, ids[k])])

\* std::ofstream(filename): opening creates or truncates the file.
saveTemplateData(canOpen) ==
  /\ call' = "saveTemplateData"
  /\ IF canOpen
     THEN /\ file' = [exists |-> TRUE,
                      content |-> saveTemplateContent(m_mapOfTemplate_info,
                                                      m_mapOfTemplateImages)]
          /\ cerr' = IF \A id \in DOMAIN m_mapOfTemplate_info :
                            /\ ScaleOne \in DOMAIN m_mapOfTemplate_info[id]
                            /\ id \in DOMAIN m_mapOfTemplateImages
                     THEN ""
                     ELSE "Cannot find the template info for scale=1 or cannot find the template image!"
     ELSE /\ UNCHANGED file
          /\ cerr' = "File cannot be opened !"
  /\ UNCHANGED <<m_mapOfTemplate_info, m_mapOfTemplateImages, m_scaleMin, m_scaleMax,
                 m_scaleStep, searchVars, groupVars>>

\* file.read of one value: a read past the end fails and leaves the
\* variable at the 0 it was initialised with.
fileRead(content, pos) == IF pos <= Len(content) THEN content[pos] ELSE 0

\* The loop of loadTemplateData (lines 931-1018) from template cpt on, pos
\* being the position of the next value of the file.
RECURSIVE loadTemplateLoop(_, _, _, _, _, _, _, _, _)
loadTemplateLoop(content, pos, cpt, nbTemplates, info, images, min, max, step) ==
  IF cpt >= nbTemplates THEN [info |-> info, images |-> images]
  ELSE
    LET id         == fileRead(content, pos)
        nbRows     == fileRead(content, pos + 1)
        nbCols     == fileRead(content, pos + 2)
        nbChannels == fileRead(content, pos + 3)
        size       == nbRows * nbCols * nbChannels
        data       == [k \in 1..size |-> fileRead(content, pos + 3 + k)]
        \* cv::Mat(nbRows, nbCols, CV_8UC3 or CV_8U, data)
        channels   == IF nbChannels = 3 THEN 3 ELSE 1
        img        == Mat(nbRows, nbCols, channels, SubSeq(data, 1, nbRows * nbCols * channels))
        p          == pos + 4 + size
        templateLocation == Rect(fileRead(content, p), fileRead(content, p + 1),
                                 fileRead(content, p + 2), fileRead(content, p + 3))
        queryROI   == Rect(fileRead(content, p + 4), fileRead(content, p + 5),
                           fileRead(content, p + 6), fileRead(content, p + 7))
        template_info == [prepareScaled(img, ScaleOne) EXCEPT
                            !.m_queryROI = queryROI,
                            !.m_templateLocation = templateLocation]
        perScale   == IF id \in DOMAIN info THEN info[id] ELSE EmptyMapOf
        swept      == SweepInto(MapPut(perScale, ScaleOne, template_info), img, min, max, step)
    IN  loadTemplateLoop(content, p + 8, cpt + 1, nbTemplates,
                         MapPut(info, id, swept), MapPut(images, id, img), min, max, step)

\* The plausible slip of cleaning the maps before the file is known to be open.
loadTemplateDataClearsFirst(f, opened, info, images, min, max, step) ==
  IF opened
  THEN loadTemplateLoop(f.content, 2, 0, fileRead(f.content, 1), EmptyMapOf, EmptyMapOf,
                        min, max, step) @@ [cerr |-> ""]
  ELSE [info |-> EmptyMapOf, images |-> EmptyMapOf, cerr |-> "File cannot be opened !"]

\* What loadTemplateData leaves in the two maps, and the error it reports.
loadTemplateDataResult(f, opened, info, images, min, max, step) ==
  IF opened
  THEN loadTemplateLoop(f.content, 2, 0, fileRead(f.content, 1), EmptyMapOf, EmptyMapOf,
                        min, max, step) @@ [cerr |-> ""]
  ELSE [info |-> info, images |-> images, cerr |-> "File cannot be opened !"]

\* std::ifstream(filename): a file that does not exist cannot be opened.
loadTemplateData(canOpen) ==
  LET r == loadTemplateDataResult(file, file.exists /\ canOpen, m_mapOfTemplate_info,
                                  m_mapOfTemplateImages, m_scaleMin, m_scaleMax, m_scaleStep)
  IN  /\ call' = "loadTemplateData"
      /\ \E read \in StoreReadsOf(r.info) :
           IF read = Fault
           THEN fault' = TRUE /\ UNCHANGED <<cerr, m_mapOfTemplate_info, m_mapOfTemplateImages>>
           ELSE /\ cerr' = r.cerr
                /\ m_mapOfTemplate_info' = resolveStore(r.info, read)
                /\ m_mapOfTemplateImages' = r.images
                /\ UNCHANGED fault
      /\ UNCHANGED <<m_scaleMin, m_scaleMax, m_scaleStep, file, m_matchingStrategyType,
                     m_query_info, detections, groupVars>>

(***************************************************************************)
(* Detection: detect_impl, detect, detectMultiScale.  The options of a     *)
(* call are one record opt: useOrientation, distanceThresh, lambda,        *)
(* weight_forward, weight_backward, useGroupDetections.                    *)
(***************************************************************************)
\* prepareQuery of the query images, tabulated once.
PreparedQueries == [img \in QueryImages |-> prepareQuery(img)] @@ <<>>

prepareQueryOf(img) ==
  IF img \in QueryImages THEN PreparedQueries[img] ELSE prepareQuery(img)

\* detect_impl: currentDetections of one template at one scale.  Nothing is
\* extracted from an empty map.
detect_impl(template_info, scale, query_info, strategyType, opt) ==
  LET chamferMap == computeMatchingMap(template_info, query_info, strategyType,
                      opt.useOrientation, opt.lambda, opt.weight_forward,
                      opt.weight_backward)
      all_detections == ExtractLoop(chamferMap, template_info, scale,
                                    opt.distanceThresh, 0, <<>>)
  IN  IF chamferMap.rows = 0 \/ chamferMap.cols = 0 THEN <<>>
      ELSE StdSort(IF opt.useGroupDetections
                   THEN groupDetections(all_detections, <<>>, DefaultOverlapPercentage)
                   ELSE all_detections)

\* "it_detection->m_templateIndex = id" over a list.
setTemplateIndex(dets, id) ==
  [k \in 1..Len(dets) |-> [dets[k] EXCEPT !.m_templateIndex = id]]

\* detections of detect before the sort of line 666: per id in increasing
\* order, the detections of the entry of scale 1.0 if there is one.
detectAll(info, query_info, strategyType, opt) ==
  LET ids == SortedSeq(DOMAIN info)
  IN  Flatten([k \in 1..Len(ids) |->
        IF ScaleOne \in DOMAIN info[ids[k]]
        THEN setTemplateIndex(detect_impl(info[ids[k]][ScaleOne], ScaleOne, query_info,
                                          strategyType, opt), ids[k])
        ELSE <<>>])

\* The plausible slip of returning the concatenation as it is.
detectUnsorted(info, query_info, strategyType, opt) ==
  detectAll(info, query_info, strategyType, opt)

\* detections as detect returns them.
detectResult(info, query_info, strategyType, opt) ==
  StdSort(detectAll(info, query_info, strategyType, opt))

\* What the accesses of computeMatchingMap to the cost map and the rejection
\* mask do (lines 434-468, ptr(i)[j] without a check of the bounds): nothing
\* beside the search while every visited (i, j) is a cell of the map; when
\* the bounds of a searched entry reach outside, the writes fall outside the
\* two matrices and may end the process.  detect searches the entries of
\* scale 1.0, detectMultiScale all of them.
SearchOutcomes(info, query_info, strategyType, everyScale) ==
  LET outside(template_info) ==
        LET w == query_info.m_distImg.cols - template_info.m_distImg.cols + 1
            h == query_info.m_distImg.rows - template_info.m_distImg.rows + 1
            b == SearchBounds(template_info, strategyType, w, h)
        IN  /\ w > 0 /\ h > 0
            /\ \E i \in Visited(b.startI, b.endI, yStep), j \in Visited(b.startJ, b.endJ, xStep) :
                 ~(0 <= i /\ i < h /\ 0 <= j /\ j < w)
  IN  {0} \cup IF \E id \in DOMAIN info : \E scale \in DOMAIN info[id] :
                    (everyScale \/ scale = ScaleOne) /\ outside(info[id][scale])
               THEN {Fault} ELSE {}

\* The output list kept as the caller passed it.
keptOutput(detections_out) == detections_out

\* detections.clear() (lines 627 and 675).
cleared(detections_out) == <<>>

detect(img_query, opt) ==
  /\ call' = "detect"
  /\ cerr' = ""
  /\ \E read \in ReadsOf(prepareQueryOf(img_query)),
        access \in SearchOutcomes(m_mapOfTemplate_info, prepareQueryOf(img_query),
                                  m_matchingStrategyType, FALSE) :
       IF read = Fault \/ access = Fault
       THEN fault' = TRUE /\ UNCHANGED <<m_query_info, detections>>
       ELSE /\ m_query_info' = resolveRead(prepareQueryOf(img_query), read)
            /\ detections' = cleared(detections) \o
                               detectResult(m_mapOfTemplate_info,
                                            resolveRead(prepareQueryOf(img_query), read),
                                            m_matchingStrategyType, opt)
            /\ UNCHANGED fault
  /\ UNCHANGED <<storeVars, m_matchingStrategyType, groupVars>>

\* detections of detectMultiScale before the sort of line 725: per id and
\* per scale, both in increasing order.
detectMultiScaleAll(info, query_info, strategyType, opt) ==
  LET ids == SortedSeq(DOMAIN info)
      perId(id) ==
        LET scales == SortedSeq(DOMAIN info[id])
        IN  Flatten([n \in 1..Len(scales) |->
              setTemplateIndex(detect_impl(info[id][scales[n]], scales[n], query_info,
                                           strategyType, opt), id)])
  IN  Flatten([k \in 1..Len(ids) |-> perId(ids[k])])

\* The plausible slip of searching whatever the strategy is.
neverRefused(strategyType) == FALSE

\* The condition of line 677.
multiScaleRefused(strategyType) == strategyType = "templatePoseMatching"

\* detectMultiScale: under pose matching the output is cleared and nothing
\* else is done; the flag useNonMaximaSuppression is not read.
detectMultiScale(img_query, opt) ==
  /\ call' = "detectMultiScale"
  /\ IF multiScaleRefused(m_matchingStrategyType)
     THEN /\ cerr' = "Cannot detect on multiple scales with the matching strategy=templatePoseMatching!"
          /\ detections' = cleared(detections)
          /\ UNCHANGED <<m_query_info, fault>>
     ELSE /\ cerr' = ""
          /\ \E read \in ReadsOf(prepareQueryOf(img_query)),
                access \in SearchOutcomes(m_mapOfTemplate_info, prepareQueryOf(img_query),
                                          m_matchingStrategyType, TRUE) :
               IF read = Fault \/ access = Fault
               THEN fault' = TRUE /\ UNCHANGED <<m_query_info, detections>>
               ELSE /\ m_query_info' = resolveRead(prepareQueryOf(img_query), read)
                    /\ detections' =
                         StdSort(cleared(detections) \o
                                 detectMultiScaleAll(m_mapOfTemplate_info,
                                   resolveRead(prepareQueryOf(img_query), read),
                                   m_matchingStrategyType, opt))
                    /\ UNCHANGED fault
  /\ UNCHANGED <<storeVars, m_matchingStrategyType, groupVars>>

\* The setter of the search strategy is declared in Chamfer.hpp.
setMatchingStrategyType(strategyType) ==
  /\ call' = "setMatchingStrategyType"
  /\ cerr' = ""
  /\ m_matchingStrategyType' = strategyType
  /\ UNCHANGED <<storeVars, m_query_info, detections, fault, groupVars>>

(***************************************************************************)
(* The matcher after construction (lines 26-34), with no file written yet, *)
(* and the specification of the template store.                            *)
(***************************************************************************)
\* The team of threads of the parallel regions; thread 1 is the master, the
\* thread that called computeMatchingMap.
Threads == {1, 2}

Init ==
  /\ m_mapOfTemplate_info = EmptyMapOf
  /\ m_mapOfTemplateImages = EmptyMapOf
  /\ m_scaleMin = DefaultScaleMin
  /\ m_scaleMax = DefaultScaleMax
  /\ m_scaleStep = DefaultScaleStep
  /\ m_matchingStrategyType = "templateMatching"
  /\ m_query_info = NoQuery
  /\ file = [exists |-> FALSE, content |-> <<>>]
  /\ detections = <<>>
  /\ fault = FALSE
  /\ call = ""
  /\ cerr = ""
  /\ g_detections = <<>>
  /\ g_overlapPercentage = DefaultOverlapPercentage
  /\ g_clustered = <<>>
  /\ g_grouped = <<>>
  /\ g_done = FALSE
  /\ n_maxima = <<>>
  /\ e_pc = "idle"
  /\ e_chamferMap = EmptyMap
  /\ e_distanceThresh = 0
  /\ e_iteration = 0
  /\ e_all_detections = <<>>
  /\ c_args = <<>>
  /\ c_cost = <<0, 0>>
  /\ s_matchingType = m_matchingType
  /\ s_evaluated = <<>>
  /\ t_run = <<>>
  /\ t_pc = [thread \in Threads |-> [loop |-> "idle", busy |-> FALSE, i |-> 0, j |-> 0]]
  /\ t_todo = [loop \in {"filter", "evaluate"} |-> {}]
  /\ t_rejection_mask = EmptyMap
  /\ t_chamferMap = EmptyMap
  /\ t_log = {}
  /\ t_result = EmptyMap

\* The arguments the template store is driven with.
ScaleStepArgs == {0, 5}

Next ==
  \/ \E mapOfTemplateImages \in MapsInto({TplGray, TplBGRA}),
        mapOfTemplateRois \in MapsInto({RoiColumn5}) :
       setTemplateImages(mapOfTemplateImages, mapOfTemplateRois)
  \/ \E min \in ScaleArgs, max \in ScaleArgs, step \in ScaleStepArgs :
       setScale(min, max, step)
  \/ \E canOpen \in BOOLEAN : saveTemplateData(canOpen)
  \/ \E canOpen \in BOOLEAN : loadTemplateData(canOpen)

Spec == Init /\ [][Next]_vars

(***************************************************************************)
(* Properties of the template store.                                       *)
(***************************************************************************)
\* The templates as a caller sees them: the stored images and, per id and
\* scale, the prepared template with its two rectangles.
TemplatesUnchanged ==
  /\ m_mapOfTemplate_info' = m_mapOfTemplate_info
  /\ m_mapOfTemplateImages' = m_mapOfTemplateImages

\* C1: a call of setTemplateImages that fails because the two maps differ in
\* size leaves the templates configured before (images and rectangles) as
\* they were.
C1_SizeMismatchKeepsTemplates ==
  [][(call' = "setTemplateImages" /\ cerr' = "Different size between templates and rois!")
       => TemplatesUnchanged]_vars

\* C2: a call of setTemplateImages with maps of equal size that fails because
\* an image id has no rois changes nothing: the templates configured before
\* stay and nothing of the new input is installed.
C2_MissingRoiKeepsTemplates ==
  [][(call' = "setTemplateImages" /\ cerr' = "The id does not exist in template rois!")
       => TemplatesUnchanged]_vars

\* C3: setScale stores the range exactly when min > 0, max > 0, max >= min and
\* step > 0; on any other arguments it reports the invalid parameter and
\* leaves the range and the per-scale entries of every template unchanged.
C3_SetScaleValidatesRange ==
  [][\A min \in ScaleArgs, max \in ScaleArgs, step \in ScaleStepArgs :
       (call' = "setScale" /\ setScale(min, max, step)) =>
         IF min > 0 /\ max > 0 /\ max >= min /\ step > 0
         THEN m_scaleMin' = min /\ m_scaleMax' = max /\ m_scaleStep' = step
         ELSE /\ cerr' = "Invalid scale parameter !"
              /\ UNCHANGED <<m_scaleMin, m_scaleMax, m_scaleStep>>
              /\ TemplatesUnchanged]_vars

\* setScale has rejected its arguments on a matcher that holds templates and
\* a range accepted earlier.
C3_RejectedOnConfiguredMatcher ==
  /\ call = "setScale"
  /\ cerr = "Invalid scale parameter !"
  /\ m_mapOfTemplate_info # EmptyMapOf
  /\ m_scaleMin # DefaultScaleMin

\* C5: loadTemplateData and saveTemplateData that cannot open the file leave
\* the template collection and the stored images exactly as before.
C5_UnopenedFileKeepsTemplates ==
  [][(call' \in {"loadTemplateData", "saveTemplateData"} /\ cerr' = "File cannot be opened !")
       => TemplatesUnchanged]_vars

\* loadTemplateData has failed to open a file that a save wrote, on a
\* matcher that holds templates.
C5_LoadFailedOnConfiguredMatcher ==
  /\ call = "loadTemplateData"
  /\ cerr = "File cannot be opened !"
  /\ file.exists
  /\ m_mapOfTemplate_info # EmptyMapOf

\* The two rectangles of the entry of scale 1.0 of every template.
TemplateRects(info) ==
  [id \in DOMAIN info |->
     IF ScaleOne \in DOMAIN info[id]
     THEN <<info[id][ScaleOne].m_templateLocation, info[id][ScaleOne].m_queryROI>>
     ELSE <<>>]

\* C6: loading the file that saveTemplateData has just written gives back
\* the same ids, the same image per id (rows, columns, channels and every
\* byte) and the same two rectangles per id.
C6_SaveThenLoadRoundTrip ==
  [][(/\ call = "saveTemplateData" /\ cerr = ""
      /\ call' = "loadTemplateData" /\ cerr' = "")
       => /\ DOMAIN m_mapOfTemplate_info' = DOMAIN m_mapOfTemplate_info
          /\ m_mapOfTemplateImages' = m_mapOfTemplateImages
          /\ TemplateRects(m_mapOfTemplate_info') = TemplateRects(m_mapOfTemplate_info)]_vars

(***************************************************************************)
(* The specification of detection: templates are set, the strategy is      *)
(* chosen, queries are searched.                                           *)
(***************************************************************************)
\* The template sets the search is driven with: one template, or two.
DetectTemplateImages ==
  {[id \in ids |-> IF id = 1 THEN TplGray ELSE TplBGR] : ids \in {{1}, {1, 2}}}

DetectTemplateRois(ids) == [id \in ids |-> IF id = 1 THEN RoiColumn5 ELSE RoiEverywhere]

UseOrientations == BOOLEAN

DetectOptions ==
  [useOrientation : UseOrientations, distanceThresh : DistanceThresholds, lambda : Lambdas,
   weight_forward : ForwardWeights, weight_backward : BackwardWeights,
   useGroupDetections : BOOLEAN]

NextDetect ==
  \/ \E mapOfTemplateImages \in DetectTemplateImages :
       setTemplateImages(mapOfTemplateImages,
                         DetectTemplateRois(DOMAIN mapOfTemplateImages))
  \/ \E strategyType \in MatchingStrategyTypes : setMatchingStrategyType(strategyType)
  \/ \E img_query \in QueryImages, opt \in DetectOptions : detect(img_query, opt)
  \/ \E img_query \in QueryImages, opt \in DetectOptions : detectMultiScale(img_query, opt)

SpecDetect == Init /\ [][NextDetect]_vars

(***************************************************************************)
(* Properties of detection.                                                *)
(***************************************************************************)
\* C4: detectMultiScale called while the strategy is pose matching returns
\* the empty list and changes nothing of the matcher: templates, scale range
\* and the prepared query stay as they were (no search has run).
C4_MultiScaleRefusedUnderPose ==
  [][(call' = "detectMultiScale" /\ m_matchingStrategyType = "templatePoseMatching")
       => /\ detections' = <<>>
          /\ UNCHANGED <<storeVars, m_matchingStrategyType, m_query_info>>]_vars

\* detectMultiScale has been refused on a matcher that holds templates and a
\* query prepared by an earlier search.
C4_RefusedWithTemplatesAndQuery ==
  /\ call = "detectMultiScale"
  /\ m_matchingStrategyType = "templatePoseMatching"
  /\ cerr # ""
  /\ m_mapOfTemplate_info # EmptyMapOf
  /\ m_query_info # NoQuery
  /\ detections = <<>>

\* C7: the list detect and detectMultiScale return is in increasing order of
\* cost: no detection costs less than the one before it.
C7_DetectionsSortedByCost ==
  \A k \in 1..(Len(detections) - 1) :
    ~FracLess(detections[k + 1].m_chamferDist, detections[k].m_chamferDist)

\* A multi-scale search has returned detections of two templates, at more
\* than one scale and of more than one cost.
C7_SortedAcrossTemplatesAndScales ==
  /\ call = "detectMultiScale"
  /\ \E i \in 1..Len(detections), j \in 1..Len(detections) :
       /\ i < j
       /\ detections[i].m_templateIndex # detections[j].m_templateIndex
       /\ detections[i].m_scale # detections[j].m_scale
       /\ FracLess(detections[i].m_chamferDist, detections[j].m_chamferDist)

\* The options of a search without clustering.
RawOptions(distanceThresh) ==
  {opt \in DetectOptions : opt.distanceThresh = distanceThresh /\ ~opt.useGroupDetections}

\* The number of detections the two searches give for a query, per
\* threshold, with the other options of opt.
NbDetections(img_query, opt) ==
  [t \in DistanceThresholds |->
     <<Len(detectResult(m_mapOfTemplate_info, prepareQueryOf(img_query),
                        m_matchingStrategyType, [opt EXCEPT !.distanceThresh = t])),
       Len(detectMultiScaleAll(m_mapOfTemplate_info, prepareQueryOf(img_query),
                               m_matchingStrategyType, [opt EXCEPT !.distanceThresh = t]))>>]
  @@ <<>>

\* C8: with clustering disabled, for the same templates, query and options,
\* a higher distance threshold never gives fewer detections.
C8_RawDetectionsMonotoneInThreshold ==
  \A img_query \in QueryImages :
    \A opt \in RawOptions(CHOOSE t \in DistanceThresholds : TRUE) :
      \A nb \in {NbDetections(img_query, opt)} :
        \A t1 \in DistanceThresholds, t2 \in DistanceThresholds :
          t1 <= t2 => nb[t1][1] <= nb[t2][1] /\ nb[t1][2] <= nb[t2][2]

\* A search without clustering has returned detections, fewer than the same
\* search gives with a higher threshold.
C8_MoreDetectionsWithHigherThreshold ==
  /\ call = "detect"
  /\ detections # <<>>
  /\ \E t1 \in DistanceThresholds, t2 \in DistanceThresholds :
       /\ t1 < t2
       /\ \E opt1 \in RawOptions(t1) :
            /\ detections = detectResult(m_mapOfTemplate_info, m_query_info,
                                         m_matchingStrategyType, opt1)
            /\ Len(detections) <
                 Len(detectResult(m_mapOfTemplate_info, m_query_info,
                                  m_matchingStrategyType,
                                  [opt1 EXCEPT !.distanceThresh = t2]))

\* The cells of a cost map.
MapCells(map) == {map.at[i][j] : i \in 0..(map.rows - 1), j \in 0..(map.cols - 1)}

\* The elements of a sequence.
Range(seq) == {seq[k] : k \in 1..Len(seq)}

\* The entries (id, scale) of the template collection.
TemplateEntries ==
  {e \in (DOMAIN m_mapOfTemplate_info) \X PreparedScales : e[2] \in DOMAIN m_mapOfTemplate_info[e[1]]}

\* The cost map of an entry for the prepared query, and what detect_impl
\* extracts from it.
MapAndDetections(e, opt) ==
  <<computeMatchingMap(m_mapOfTemplate_info[e[1]][e[2]], m_query_info, m_matchingStrategyType,
                       opt.useOrientation, opt.lambda, opt.weight_forward, opt.weight_backward),
    detect_impl(m_mapOfTemplate_info[e[1]][e[2]], e[2], m_query_info, m_matchingStrategyType,
                opt)>>

\* The cost map of an entry for the prepared query.
MatchingMapOf(e, useOrientation) ==
  computeMatchingMap(m_mapOfTemplate_info[e[1]][e[2]], m_query_info, m_matchingStrategyType,
                     useOrientation, 1, 1, 1)

\* The search bounds of an entry on the cost map.
BoundsOf(e, map) ==
  SearchBounds(m_mapOfTemplate_info[e[1]][e[2]], m_matchingStrategyType, map.cols, map.rows)

\* The cell (i, j) is inside the bounds and on the grid of the strides.
OnGrid(b, i, j) ==
  /\ b.startI <= i /\ i < b.endI /\ (i - b.startI) % yStep = 0
  /\ b.startJ <= j /\ j < b.endJ /\ (j - b.startJ) % xStep = 0

\* The number of descriptors of the entry that match at (i, j).
MatchesAt(e, i, j) ==
  nbDescriptorMatches(m_mapOfTemplate_info[e[1]][e[2]], m_query_info, i, j)

C14_DetectionsBelowThreshold ==
  m_query_info # NoQuery =>
    \A opt \in DetectOptions :
      /\ \A d \in Range(detectResult(m_mapOfTemplate_info, m_query_info,
                                     m_matchingStrategyType, opt)) :
           FracLess(d.m_chamferDist, FracOfInt(opt.distanceThresh))
      /\ \A e \in TemplateEntries :
           \A md \in {MapAndDetections(e, opt)} :
             /\ \A d \in Range(md[2]) :
                  FracLess(d.m_chamferDist, FracOfInt(opt.distanceThresh))
             /\ (\A c \in MapCells(md[1]) : ~FracLess(c, FracOfInt(opt.distanceThresh)))
                  => md[2] = <<>>

\* A search has returned detections while a cell of a cost map held a cost
\* that was evaluated and is not below the threshold; the same search with
\* the lowest threshold returns nothing.
C14_SomeCellsNotBelowThreshold ==
  /\ call = "detect"
  /\ detections # <<>>
  /\ \E opt \in DetectOptions :
       /\ detections = detectResult(m_mapOfTemplate_info, m_query_info,
                                    m_matchingStrategyType, opt)
       /\ \E e \in TemplateEntries : \E c \in MapCells(MapAndDetections(e, opt)[1]) :
            /\ FracLess(c, FracOfInt(FltMax))
            /\ ~FracLess(c, FracOfInt(opt.distanceThresh))
       /\ \E low \in DetectOptions :
            detectResult(m_mapOfTemplate_info, m_query_info, m_matchingStrategyType, low) = <<>>

(***************************************************************************)
(* The specification of clustering: a caller fills a list of detections    *)
(* and has groupDetections collapse it into an empty output list, as       *)
(* detect_impl does (line 611).                                            *)
(***************************************************************************)
MaxDetections == 3

\* Boxes of 4 by 1 on one row, at these columns.
GroupColumns == {0, 1, 2, 6}

GroupDetections ==
  {Detection_t(Rect(x, 0, 4, 1), FracOfInt(x + 1), FracOfInt(ScaleOne), id) :
     x \in GroupColumns, id \in TemplateIds}

pushDetection(d) ==
  /\ ~g_done
  /\ Len(g_detections) < MaxDetections
  /\ g_detections' = Append(g_detections, d)
  /\ call' = "push_back"
  /\ UNCHANGED <<storeVars, searchVars, cerr, g_overlapPercentage, g_clustered,
                 g_grouped, g_done, n_maxima, extractVars, chamferVars, dispatchVars, threadVars>>

callGroupDetections(overlapPercentage) ==
  /\ ~g_done
  /\ call' = "groupDetections"
  /\ g_overlapPercentage' = overlapPercentage
  /\ g_clustered' = clusterDetections(g_detections, overlapPercentage)
  /\ g_grouped' = groupDetections(g_detections, <<>>, overlapPercentage)
  /\ g_done' = TRUE
  /\ UNCHANGED <<storeVars, searchVars, cerr, g_detections, n_maxima, extractVars, chamferVars, dispatchVars, threadVars>>

NextGroup ==
  \/ \E d \in GroupDetections : pushDetection(d)
  \/ \E overlapPercentage \in {DefaultOverlapPercentage, <<1, 4>>} : callGroupDetections(overlapPercentage)

SpecGroup == Init /\ [][NextGroup]_vars

(***************************************************************************)
(* Properties of clustering.                                               *)
(***************************************************************************)
Members(cluster) == {cluster[k] : k \in 1..Len(cluster)}

SameCluster(i, j) ==
  \E c \in 1..Len(g_clustered) : i \in Members(g_clustered[c]) /\ j \in Members(g_clustered[c])

IsSeed(i) == \E c \in 1..Len(g_clustered) : g_clustered[c][1] = i

\* The overlap of the input detections i and j is above the threshold.
Overlapping(i, j) ==
  FracLess(g_overlapPercentage,
           overlapping_percentage(g_detections[i].m_boundingBox,
                                  g_detections[j].m_boundingBox))

\* C9, as the specification states it: any two input detections whose
\* overlap is above the threshold end in the same cluster.
C9_OverlappingPairsShareCluster ==
  g_done =>
    \A i \in 1..Len(g_detections), j \in 1..Len(g_detections) :
      (i # j /\ Overlapping(i, j)) => SameCluster(i, j)

\* C9, as the code has it: of two input detections whose overlap is above
\* the threshold, when the earlier seeds a cluster the later seeds none and
\* lies in that cluster or in one seeded before it.
C9_OverlappingSeedAbsorbsLater ==
  g_done =>
    \A i \in 1..Len(g_detections), j \in 1..Len(g_detections) :
      (i < j /\ Overlapping(i, j) /\ IsSeed(i)) =>
        /\ ~IsSeed(j)
        /\ \E c \in 1..Len(g_clustered) :
             j \in Members(g_clustered[c]) /\ g_clustered[c][1] <= i

\* Clustering has left two detections that overlap above the threshold in
\* two clusters, the later one absorbed by an earlier seed.
C9_OverlappingPairInTwoClusters ==
  /\ g_done
  /\ \E i \in 1..Len(g_detections), j \in 1..Len(g_detections) :
       i < j /\ Overlapping(i, j) /\ ~SameCluster(i, j) /\ ~IsSeed(i)

\* C10: the clusters partition the input (every detection is a member of
\* exactly one cluster, and a cluster is never seeded by a detection picked
\* before), the output holds one detection per cluster, and it is empty
\* exactly when the input is.
C10_ClustersPartitionInput ==
  g_done =>
    /\ \A i \in 1..Len(g_detections) :
         Cardinality({<<c, k>> \in (1..Len(g_clustered)) \X (1..Len(g_detections)) :
                        k <= Len(g_clustered[c]) /\ g_clustered[c][k] = i}) = 1
    /\ \A c \in 1..Len(g_clustered) :
         /\ Len(g_clustered[c]) >= 1
         /\ Members(g_clustered[c]) \subseteq 1..Len(g_detections)
    /\ Len(g_grouped) = Len(g_clustered)
    /\ (g_grouped = <<>>) <=> (g_detections = <<>>)

\* Three detections have been collapsed into two clusters.
C10_ThreeDetectionsTwoClusters ==
  /\ g_done
  /\ Len(g_detections) = 3
  /\ Len(g_clustered) = 2
  /\ Len(g_grouped) = 2

(***************************************************************************)
(* The specification of non-maxima suppression: a caller fills a list of   *)
(* detections and has nonMaximaSuppression filter it into an empty output  *)
(* list.                                                                   *)
(***************************************************************************)
\* Boxes that nest, touch an edge of another, or lie apart; three of them
\* have the same area.
NmsDetections ==
  {Detection_t(r, FracOfInt(1), FracOfInt(ScaleOne), 1) :
     r \in {Rect(0, 0, 6, 6), Rect(1, 1, 4, 4), Rect(2, 2, 2, 2), Rect(0, 1, 2, 2),
            Rect(7, 0, 2, 2)}}

callNonMaximaSuppression ==
  /\ ~g_done
  /\ call' = "nonMaximaSuppression"
  /\ \E p \in AreaSorts(g_detections) :
       n_maxima' = nonMaximaSuppressionLoop([k \in 1..Len(g_detections) |-> g_detections[p[k]]],
                                            <<>>)
  /\ g_done' = TRUE
  /\ UNCHANGED <<storeVars, searchVars, cerr, g_detections, g_overlapPercentage,
                 g_clustered, g_grouped, extractVars, chamferVars, dispatchVars, threadVars>>

NextNms ==
  \/ \E d \in NmsDetections : pushDetection(d)
  \/ callNonMaximaSuppression

SpecNms == Init /\ [][NextNms]_vars

\* The box of a is strictly contained in the box of b: all four edges
\* strictly inside.
StrictlyContained(a, b) ==
  /\ b.m_boundingBox.x < a.m_boundingBox.x
  /\ b.m_boundingBox.y < a.m_boundingBox.y
  /\ a.m_boundingBox.x + a.m_boundingBox.width < b.m_boundingBox.x + b.m_boundingBox.width
  /\ a.m_boundingBox.y + a.m_boundingBox.height < b.m_boundingBox.y + b.m_boundingBox.height

\* C11: no detection of the output of nonMaximaSuppression has its box
\* strictly contained in the box of another detection of the output, and
\* every input detection whose box is strictly contained in no other input
\* box is in the output.
C11_NoSurvivorInsideAnother ==
  call = "nonMaximaSuppression" =>
    /\ \A i \in 1..Len(n_maxima), j \in 1..Len(n_maxima) :
         ~StrictlyContained(n_maxima[i], n_maxima[j])
    /\ \A i \in 1..Len(g_detections) :
         (\A j \in 1..Len(g_detections) : ~StrictlyContained(g_detections[i], g_detections[j]))
           => \E k \in 1..Len(n_maxima) : n_maxima[k] = g_detections[i]

\* The suppression has discarded a nested box and kept the box around it and
\* a box that touches an edge of it.
C11_NestedDiscardedTouchingKept ==
  /\ call = "nonMaximaSuppression"
  /\ Len(g_detections) = 3
  /\ Len(n_maxima) = 2
  /\ \E k \in 1..2 : n_maxima[k].m_boundingBox = Rect(0, 1, 2, 2)
  /\ \E k \in 1..2 : n_maxima[k].m_boundingBox = Rect(0, 0, 6, 6)

(***************************************************************************)
(* The specification of the search of a blank query: a template is set and *)
(* queries with and without edges are searched, until the process dies.    *)
(***************************************************************************)
\* A query image of 4 rows by 14 columns without an edge.
QueryBlank == Mat(4, 14, 1, [k \in 1..56 |-> 0])

NextBlank ==
  \/ \E mapOfTemplateImages \in DetectTemplateImages :
       ~fault /\ setTemplateImages(mapOfTemplateImages,
                                   DetectTemplateRois(DOMAIN mapOfTemplateImages))
  \/ \E img_query \in {QueryBlank} \cup QueryImages, opt \in DetectOptions :
       ~fault /\ detect(img_query, opt)
  \/ \E img_query \in {QueryBlank} \cup QueryImages, opt \in DetectOptions :
       ~fault /\ detectMultiScale(img_query, opt)

SpecBlank == Init /\ [][NextBlank]_vars

\* C12: detect on a query image without contours ends without a fault, with
\* the orientation field of the query built and zero everywhere (no element
\* outside the vector of orientations was read) and an empty detection list.
C12_BlankQueryHandled ==
  [][\A img_query \in {QueryBlank}, opt \in DetectOptions :
       (call' = "detect" /\ detect(img_query, opt)) =>
         /\ ~fault'
         /\ m_query_info'.m_contours = <<>>
         /\ m_query_info'.m_distImg.rows = img_query.rows
         /\ \A y \in 0..(img_query.rows - 1), x \in 0..(img_query.cols - 1) :
              m_query_info'.m_mapOfEdgeOrientation[y][x] = 0
         /\ detections' = <<>>]_vars

(***************************************************************************)
(* The specification of the search of a template without contour pixels.   *)
(***************************************************************************)
\* The template sets: the template of one edge pixel alone, or after a
\* template with a contour; both are searched everywhere.
NextNoContour ==
  \/ \E mapOfTemplateImages \in {[id \in {1} |-> TplDot],
                               [id \in {1, 2} |-> IF id = 1 THEN TplGray ELSE TplDot]} :
       ~fault /\ setTemplateImages(mapOfTemplateImages,
                                   [id \in DOMAIN mapOfTemplateImages |-> RoiEverywhere])
  \/ \E img_query \in QueryImages, opt \in DetectOptions :
       ~fault /\ detect(img_query, opt)
  \/ \E img_query \in QueryImages, opt \in DetectOptions :
       ~fault /\ detectMultiScale(img_query, opt)

SpecNoContour == Init /\ [][NextNoContour]_vars

\* C13: for a template without contour pixels (the count the cost is divided
\* by is zero), every cost written in the cost map of the query is the
\* non-match value, the maximum float or +infinity, and the search returns
\* no detection of that template at that scale.
C13_NoPixelsIsNonMatch ==
  \A id \in DOMAIN m_mapOfTemplate_info : \A scale \in DOMAIN m_mapOfTemplate_info[id] :
    (ContourPoints(m_mapOfTemplate_info[id][scale]) = <<>> /\ m_query_info # NoQuery) =>
      /\ \A useOrientation \in BOOLEAN :
           \A c \in MapCells(computeMatchingMap(m_mapOfTemplate_info[id][scale], m_query_info,
                                m_matchingStrategyType, useOrientation, 1, 1, 1)) :
             c = FracOfInt(FltMax) \/ IsInf(c)
      /\ call \in {"detect", "detectMultiScale"} =>
           \A k \in 1..Len(detections) :
             ~(detections[k].m_templateIndex = id /\ detections[k].m_scale = FracOfInt(scale))

(***************************************************************************)
(* The specification of the extraction loop of detect_impl on its own: the *)
(* loop is entered with a cost map and a threshold and makes one pass per  *)
(* step.                                                                   *)
(***************************************************************************)
\* The width of the widest cost map, of one row: more cells than the cap of
\* the loop.
MaxMapCols == 102

\* A cost map of one row whose costs repeat 0, 1, 2.
ExtractMap(cols) ==
  [rows |-> 1, cols |-> cols,
   at |-> [i \in {0} |-> [j \in 0..(cols - 1) |-> FracOfInt(j % 3)]]]

\* Lines 582-587: the loop is entered on a map that is not empty.
startExtraction(chamferMap, distanceThresh) ==
  /\ e_pc # "loop"
  /\ chamferMap.rows > 0 /\ chamferMap.cols > 0
  /\ call' = "detect_impl"
  /\ e_pc' = "loop"
  /\ e_chamferMap' = chamferMap
  /\ e_distanceThresh' = distanceThresh
  /\ e_iteration' = 0
  /\ e_all_detections' = <<>>
  /\ UNCHANGED <<storeVars, searchVars, cerr, g_detections, g_overlapPercentage,
                 g_clustered, g_grouped, g_done, n_maxima, chamferVars, dispatchVars, threadVars>>

\* Lines 588-607: one pass of the loop.
extractIteration ==
  /\ e_pc = "loop"
  /\ LET r == ExtractStep(e_chamferMap, prepareScaled(TplGray, ScaleOne), ScaleOne,
                          e_distanceThresh, e_iteration, e_all_detections)
     IN  /\ e_chamferMap' = r.chamferMap
         /\ e_iteration' = r.iteration
         /\ e_all_detections' = r.all_detections
         /\ e_pc' = IF r.again THEN "loop" ELSE "done"
  /\ UNCHANGED <<storeVars, searchVars, call, cerr, e_distanceThresh, g_detections,
                 g_overlapPercentage, g_clustered, g_grouped, g_done, n_maxima, chamferVars,
                 dispatchVars, threadVars>>

NextExtract ==
  \/ \E cols \in {3, MaxMapCols}, distanceThresh \in {1, 3} :
       startExtraction(ExtractMap(cols), distanceThresh)
  \/ extractIteration

SpecExtract == Init /\ [][NextExtract]_vars

\* C15: the extraction loop makes at most 100 passes and extracts at most
\* 100 detections from one cost map.
C15_AtMostHundredIterations ==
  /\ e_iteration <= 100
  /\ Len(e_all_detections) <= 100

(***************************************************************************)
(* The specification of the search bounds: a template set with a search    *)
(* region that restricts the search, with the region of no size at the     *)
(* origin or away from it, or with a region that reaches beyond the map,   *)
(* and with an anchor inside or outside the map.                           *)
(***************************************************************************)
NextBounds ==
  \/ \E searchRegion \in {Rect(0, 0, 0, 0), Rect(5, 0, 1, 1), Rect(5, 0, 0, 0),
                           Rect(5, 0, 11, 1)},
        templateAnchor \in {Rect(0, 0, 4, 2), Rect(12, 0, 4, 2)} :
       ~fault /\ setTemplateImages([id \in {1} |-> TplGray],
                                   [id \in {1} |-> <<templateAnchor, searchRegion>>])
  \/ \E strategyType \in MatchingStrategyTypes :
       ~fault /\ setMatchingStrategyType(strategyType)
  \/ \E img_query \in QueryImages, opt \in DetectOptions :
       ~fault /\ detect(img_query, opt)

SpecBounds == Init /\ [][NextBounds]_vars

\* The bounds the search has by default for a search region: the region
\* when it has a width and a height, the whole map when it has neither.
DefaultBounds(region, map) ==
  IF region.width > 0 /\ region.height > 0
  THEN [startI |-> region.y, endI |-> region.y + region.height,
        startJ |-> region.x, endJ |-> region.x + region.width]
  ELSE [startI |-> 0, endI |-> map.rows, startJ |-> 0, endJ |-> map.cols]

\* The cells of the map on the grid of the bounds.
GridCells(b, map) ==
  {c \in (0..(map.rows - 1)) \X (0..(map.cols - 1)) : OnGrid(b, c[1], c[2])}

\* C17: without pose matching, the offsets computeMatchingMap visits for a
\* template are those of its search region when the region is not empty, and
\* those of the whole map, rows and columns from 0, when the region has no
\* width and no height, whatever its x and y.
C17_DefaultSearchBounds ==
  (m_matchingStrategyType = "templateMatching" /\ m_query_info # NoQuery) =>
    \A e \in TemplateEntries :
      \A map \in {MatchingMapOf(e, TRUE)} :
        GridCells(BoundsOf(e, map), map) =
          GridCells(DefaultBounds(m_mapOfTemplate_info[e[1]][e[2]].m_queryROI, map), map)

\* C24: whatever the search region, the anchor and the strategy, the search
\* ends without an access outside the matrices, and every (i, j) that
\* computeMatchingMap visits is a cell of the cost map.
C24_AccessesInsideMap ==
  /\ ~fault
  /\ m_query_info # NoQuery =>
       \A id \in DOMAIN m_mapOfTemplate_info :
         \A map \in {MatchingMapOf(<<id, ScaleOne>>, TRUE)} :
           \A b \in {BoundsOf(<<id, ScaleOne>>, map)} :
             \A i \in Visited(b.startI, b.endI, yStep), j \in Visited(b.startJ, b.endJ, xStep) :
               0 <= i /\ i < map.rows /\ 0 <= j /\ j < map.cols

(***************************************************************************)
(* The specification of the scale sweep: runs of the template store in     *)
(* which every call succeeds, with templates of different rois.            *)
(***************************************************************************)
NextSweep ==
  \/ \E mapOfTemplateImages \in MapsInto({TplGray}),
        mapOfTemplateRois \in MapsInto({RoiEverywhere, RoiColumn5}) :
       setTemplateImages(mapOfTemplateImages, mapOfTemplateRois) /\ cerr' = ""
  \/ \E min \in ScaleArgs, max \in ScaleArgs, step \in ScaleStepArgs :
       setScale(min, max, step) /\ cerr' = ""
  \/ saveTemplateData(TRUE) /\ cerr' = ""
  \/ loadTemplateData(TRUE) /\ cerr' = ""

SpecSweep == Init /\ [][NextSweep]_vars

\* The two rectangles of an entry.
RectsOf(template_info) == <<template_info.m_templateLocation, template_info.m_queryROI>>

\* C18: after a call of setTemplateImages, setScale or loadTemplateData that
\* succeeds, every id has an entry of scale 1.0 and no entry of another
\* scale carries rectangles; after setTemplateImages the rectangles of the
\* entry of scale 1.0 are those supplied for the id, after loadTemplateData
\* those the file holds, and setScale leaves every entry of scale 1.0 as it
\* was.
C18_ScaleOneEntryKeepsRois ==
  [][(call' \in {"setTemplateImages", "setScale", "loadTemplateData"} /\ cerr' = "") =>
       /\ \A id \in DOMAIN m_mapOfTemplate_info' :
            /\ ScaleOne \in DOMAIN m_mapOfTemplate_info'[id]
            /\ \A scale \in DOMAIN m_mapOfTemplate_info'[id] \ {ScaleOne} :
                 RectsOf(m_mapOfTemplate_info'[id][scale]) = <<NoRect, NoRect>>
       /\ call' = "setTemplateImages" =>
            \A mapOfTemplateImages \in MapsInto({TplGray}),
               mapOfTemplateRois \in MapsInto({RoiEverywhere, RoiColumn5}) :
              \A r \in {setTemplateImagesResult(mapOfTemplateImages, mapOfTemplateRois,
                                                m_scaleMin, m_scaleMax, m_scaleStep)} :
                (r.cerr = "" /\ r.images = m_mapOfTemplateImages'
                   /\ resolveStore(r.info, 0) = m_mapOfTemplate_info') =>
                  \A id \in DOMAIN mapOfTemplateRois :
                    RectsOf(m_mapOfTemplate_info'[id][ScaleOne]) = mapOfTemplateRois[id]
       /\ call' = "setScale" =>
            \A id \in DOMAIN m_mapOfTemplate_info :
              /\ id \in DOMAIN m_mapOfTemplate_info'
              /\ ScaleOne \in DOMAIN m_mapOfTemplate_info[id] =>
                   m_mapOfTemplate_info'[id][ScaleOne] = m_mapOfTemplate_info[id][ScaleOne]
       /\ call' = "loadTemplateData" =>
            saveTemplateContent(m_mapOfTemplate_info', m_mapOfTemplateImages') = file.content
     ]_vars

\* setScale has swept a range that holds the scale 1.0 over two templates of
\* different rois, which the entries of scale 1.0 still carry beside entries
\* of other scales.
C18_SweptThroughScaleOne ==
  /\ call = "setScale" /\ cerr = ""
  /\ m_scaleMin < ScaleOne /\ ScaleOne <= m_scaleMax
  /\ (ScaleOne - m_scaleMin) % m_scaleStep = 0
  /\ DOMAIN m_mapOfTemplate_info = {1, 2}
  /\ RectsOf(m_mapOfTemplate_info[1][ScaleOne]) = RoiColumn5
  /\ RectsOf(m_mapOfTemplate_info[2][ScaleOne]) = RoiEverywhere
  /\ m_scaleMin \in DOMAIN m_mapOfTemplate_info[1]

(***************************************************************************)
(* The specification of the search after a change of the scale range: a    *)
(* template is set, the range is changed, the query is searched at scale   *)
(* 1.0 or at every scale.                                                  *)
(***************************************************************************)
NextRange ==
  \/ setTemplateImages([id \in {1} |-> TplGray], [id \in {1} |-> RoiEverywhere])
  \/ \E min \in ScaleArgs, max \in ScaleArgs, step \in ScaleStepArgs :
       setScale(min, max, step)
  \/ \E img_query \in QueryImages,
        opt \in {o \in DetectOptions : o.useOrientation /\ ~o.useGroupDetections} :
       detectMultiScale(img_query, opt)
  \/ \E img_query \in QueryImages,
        opt \in {o \in DetectOptions : o.useOrientation /\ ~o.useGroupDetections} :
       detect(img_query, opt)

SpecRange == Init /\ [][NextRange]_vars

\* C19: after a setScale that succeeds the scales of every template are 1.0
\* and those of the sweep of the new range, and the scale of every detection
\* that detectMultiScale returns is 1.0 or a scale of the sweep of the
\* current range.
C19_OnlyScalesOfCurrentRange ==
  /\ (call = "setScale" /\ cerr = "") =>
       \A id \in DOMAIN m_mapOfTemplate_info :
         DOMAIN m_mapOfTemplate_info[id] =
           {ScaleOne} \cup ScaleSweep(m_scaleMin, m_scaleMax, m_scaleStep)
  /\ call = "detectMultiScale" =>
       \A d \in Range(detections) :
         \E scale \in {ScaleOne} \cup ScaleSweep(m_scaleMin, m_scaleMax, m_scaleStep) :
           d.m_scale = FracOfInt(scale)

\* C25: detect and detectMultiScale leave the templates, the stored images
\* and the scale range as they were, and the list they return is what the
\* search of the query finds, with nothing of the list's content before the
\* call.
C25_SearchKeepsTemplates ==
  /\ [][(call' \in {"detect", "detectMultiScale"}) =>
          /\ m_mapOfTemplate_info' = m_mapOfTemplate_info
          /\ m_mapOfTemplateImages' = m_mapOfTemplateImages
          /\ <<m_scaleMin', m_scaleMax', m_scaleStep'>> = <<m_scaleMin, m_scaleMax, m_scaleStep>>
       ]_vars
  /\ [](call \in {"detect", "detectMultiScale"} =>
          \E opt \in {o \in DetectOptions : o.useOrientation /\ ~o.useGroupDetections} :
            detections =
              IF call = "detect"
              THEN detectResult(m_mapOfTemplate_info, m_query_info,
                                m_matchingStrategyType, opt)
              ELSE StdSort(detectMultiScaleAll(m_mapOfTemplate_info, m_query_info,
                                               m_matchingStrategyType, opt)))

\* detect has returned detections of a template that keeps entries of
\* several scales.
C25_SearchedWithTemplates ==
  /\ call = "detect"
  /\ detections # <<>>
  /\ \E id \in DOMAIN m_mapOfTemplate_info :
       Cardinality(DOMAIN m_mapOfTemplate_info[id]) > 1

(***************************************************************************)
(* The specification of computeChamferDistance on its own: the cost of a   *)
(* prepared template at an offset of a prepared query.                     *)
(***************************************************************************)
\* The backward pass without orientation reads outside the matrix of the
\* template.
ReadsOutside(template_info, query_info, matchingType, offsetX, offsetY, useOrientation) ==
  /\ matchingType = "edgeForwardBackwardMatching" /\ ~useOrientation
  /\ \E q \in Range(ContourPoints(query_info)) :
       /\ offsetX <= q.x /\ q.x < offsetX + template_info.m_distImg.cols
       /\ offsetY <= q.y /\ q.y < offsetY + template_info.m_distImg.rows
       /\ ~InMatrix(template_info.m_distImg, q.y, q.x)

\* computeChamferDistance called on its own at an offset that keeps the
\* template inside the query; a read outside the matrix ends the process or
\* gives whatever value lies there.
callComputeChamferDistance(img_template, img_query, matchingType, useOrientation, weights) ==
  \E offset \in (0..(img_query.cols - img_template.cols))
                  \X (0..(img_query.rows - img_template.rows)) :
    \E read \in IF ReadsOutside(prepareScaled(img_template, ScaleOne),
                                 prepareQueryOf(img_query), matchingType,
                                 offset[1], offset[2], useOrientation)
                 THEN OutOfVectorReads ELSE {0} :
      /\ ~fault
      /\ call' = "computeChamferDistance"
      /\ c_args' = [img_template |-> img_template, img_query |-> img_query,
                    matchingType |-> matchingType, offsetX |-> offset[1],
                    offsetY |-> offset[2], useOrientation |-> useOrientation,
                    weight_forward |-> weights[1], weight_backward |-> weights[2]]
      /\ IF read = Fault
         THEN fault' = TRUE /\ UNCHANGED c_cost
         ELSE /\ c_cost' = computeChamferDistance(prepareScaled(img_template, ScaleOne),
                                                  prepareQueryOf(img_query), matchingType,
                                                  offset[1], offset[2], useOrientation, 1,
                                                  weights[1], weights[2], read)
              /\ UNCHANGED fault
      /\ UNCHANGED <<storeVars, m_matchingStrategyType, m_query_info, detections, cerr,
                     g_detections, g_overlapPercentage, g_clustered, g_grouped, g_done,
                     n_maxima, extractVars, dispatchVars, threadVars>>

NextChamfer ==
  \E img_template \in {TplGray, TplBGR}, img_query \in QueryImages,
     matchingType \in {"edgeMatching", "edgeForwardBackwardMatching"}, useOrientation \in UseOrientations,
     weights \in {<<1, 1>>, <<1, 2>>} :
    callComputeChamferDistance(img_template, img_query, matchingType, useOrientation, weights)

SpecChamfer == Init /\ [][NextChamfer]_vars

\* C20: under edgeForwardBackwardMatching the cost computeChamferDistance
\* returns is the weighted sum of the two passes over the number of contour
\* pixels of the template plus the number of contour pixels of the query.
C20_DividedByBothCounts ==
  (call = "computeChamferDistance" /\ c_args.matchingType = "edgeForwardBackwardMatching"
     /\ c_args.useOrientation) =>
    \A template_info \in {prepareScaled(c_args.img_template, ScaleOne)},
       query_info \in {prepareQueryOf(c_args.img_query)} :
      c_cost = Normalize(<<chamferDistSum(template_info, query_info, c_args.matchingType,
                                          c_args.offsetX, c_args.offsetY, TRUE, 1,
                                          c_args.weight_forward, c_args.weight_backward, 0),
                           Len(ContourPoints(template_info)) + Len(ContourPoints(query_info))>>)

\* The sum of the two passes when the backward pass reads the template at
\* (y - offsetY, x - offsetX) for every point (x, y) of the query inside the
\* footprint of the template, and nothing for the points outside.
OffsetBackwardSum(template_info, query_info, a) ==
  LET qpts == ContourPoints(query_info)
      inside(q) == /\ a.offsetX <= q.x /\ q.x < a.offsetX + template_info.m_distImg.cols
                   /\ a.offsetY <= q.y /\ q.y < a.offsetY + template_info.m_distImg.rows
  IN  chamferDistSum(template_info, query_info, "edgeMatching", a.offsetX, a.offsetY,
                     a.useOrientation, 1, a.weight_forward, a.weight_backward, 0)
      + SeqSum([k \in 1..Len(qpts) |->
          IF ~inside(qpts[k]) THEN 0
          ELSE a.weight_backward *
                 ( template_info.m_distImg.at[qpts[k].y - a.offsetY][qpts[k].x - a.offsetX]
                 + IF a.useOrientation
                   THEN getMinAngleError(qpts[k].ori,
                          template_info.m_mapOfEdgeOrientation[qpts[k].y - a.offsetY][qpts[k].x - a.offsetX])
                   ELSE 0 )])

\* C21: under edgeForwardBackwardMatching, with or without orientation, the
\* call ends without a read outside the template and the backward pass has
\* read the template's distance at (y - offsetY, x - offsetX) for the points
\* of the query inside the footprint and nothing for the others.
C21_BackwardReadsAtOffset ==
  (call = "computeChamferDistance" /\ c_args.matchingType = "edgeForwardBackwardMatching") =>
    /\ ~fault
    /\ \A template_info \in {prepareScaled(c_args.img_template, ScaleOne)},
          query_info \in {prepareQueryOf(c_args.img_query)} :
         c_cost = Normalize(<<OffsetBackwardSum(template_info, query_info, c_args),
                              Len(ContourPoints(template_info))>>)

(***************************************************************************)
(* The specification of the scoring of an offset: the matching type is set *)
(* and computeMatchingMap scores a visited offset by the switch of lines   *)
(* 478-498.                                                                *)
(***************************************************************************)
\* The switch of lines 478-498: the function that scores the offset.
costFunction(matchingType) ==
  IF matchingType \in {"edgeMatching", "edgeForwardBackwardMatching"}
  THEN "computeChamferDistance"
  ELSE "computeFullChamferDistance"

\* The branch the function takes: lines 137, 161 and 215 of
\* computeChamferDistance, lines 301 and 334 of computeFullChamferDistance.
costBranch(function, matchingType) ==
  IF function = "computeChamferDistance"
  THEN IF matchingType = "lineMatching" THEN "line"
       ELSE IF matchingType = "lineForwardBackwardMatching" THEN "lineForwardBackward"
       ELSE IF matchingType = "edgeForwardBackwardMatching" THEN "edgeForwardBackward"
       ELSE "edge"
  ELSE IF matchingType = "fullMatching" THEN "full"
       ELSE IF matchingType = "forwardBackwardMaskMatching" THEN "forwardBackwardMask"
       ELSE "mask"

\* The setter of the matching type and the matching types are declared in
\* Chamfer.hpp.
setMatchingType(matchingType) ==
  /\ call' = "setMatchingType"
  /\ s_matchingType' = matchingType
  /\ UNCHANGED <<storeVars, searchVars, cerr, g_detections, g_overlapPercentage, g_clustered,
                 g_grouped, g_done, n_maxima, extractVars, chamferVars, s_evaluated, threadVars>>

\* Lines 478-498 at a visited offset (j, i) of a map searched everywhere: the
\* function called and the branch it takes.
scoreOffset(chamferMapWidth, chamferMapHeight) ==
  \E i \in Visited(0, chamferMapHeight, yStep), j \in Visited(0, chamferMapWidth, xStep) :
    /\ call' = "computeMatchingMap"
    /\ s_evaluated' = [matchingType |-> s_matchingType, i |-> i, j |-> j,
                       function |-> costFunction(s_matchingType),
                       branch |-> costBranch(costFunction(s_matchingType), s_matchingType)]
    /\ UNCHANGED <<storeVars, searchVars, cerr, g_detections, g_overlapPercentage,
                   g_clustered, g_grouped, g_done, n_maxima, extractVars, chamferVars,
                   s_matchingType, threadVars>>

NextDispatch ==
  \/ \E matchingType \in {"edgeMatching", "edgeForwardBackwardMatching", "fullMatching",
                          "maskMatching", "forwardBackwardMaskMatching", "lineMatching",
                          "lineForwardBackwardMatching"} :
       setMatchingType(matchingType)
  \/ \E chamferMapWidth \in {11, 26}, chamferMapHeight \in {3, 16} :
       scoreOffset(chamferMapWidth, chamferMapHeight)

SpecDispatch == Init /\ [][NextDispatch]_vars

\* C22: an offset visited under lineMatching or lineForwardBackwardMatching
\* is scored by the line branch of computeChamferDistance, and under every
\* matching type by the branch of that type.
C22_LineTypesScoredByLines ==
  (call = "computeMatchingMap") =>
    /\ s_evaluated.matchingType = "lineMatching" =>
         (s_evaluated.function = "computeChamferDistance" /\ s_evaluated.branch = "line")
    /\ s_evaluated.matchingType = "lineForwardBackwardMatching" =>
         (s_evaluated.function = "computeChamferDistance"
            /\ s_evaluated.branch = "lineForwardBackward")
    /\ s_evaluated.matchingType = "edgeMatching" => s_evaluated.branch = "edge"
    /\ s_evaluated.matchingType = "edgeForwardBackwardMatching" =>
         s_evaluated.branch = "edgeForwardBackward"
    /\ s_evaluated.matchingType = "fullMatching" => s_evaluated.branch = "full"
    /\ s_evaluated.matchingType = "maskMatching" => s_evaluated.branch = "mask"
    /\ s_evaluated.matchingType = "forwardBackwardMaskMatching" =>
         s_evaluated.branch = "forwardBackwardMask"

(***************************************************************************)
(* The specification of the two parallel loops of computeMatchingMap.  An  *)
(* "omp parallel for" hands every iteration of its loop, a row of the      *)
(* search, to one thread of the team, in an order and a distribution the   *)
(* schedule decides, and the threads wait for one another at the end of    *)
(* the loop.  A step of a thread is one cell of its row.                   *)
(***************************************************************************)
\* The threads wait for none at the end of a loop, as under "nowait".
noBarrier(pc, loop) == TRUE

\* The barrier at the end of a parallel loop (lines 460 and 528): every
\* thread of the team has arrived at the end of the loop.
barrier(pc, loop) ==
  \A thread \in Threads :
    pc[thread].loop \notin {"filter"} \cup IF loop = "evaluate" THEN {"filtered", "evaluate"}
                                          ELSE {}

\* Lines 400-430: the map at the maximum float, the bounds, the mask of ones;
\* then the team enters the first loop (line 432).
startMatching(img_template, img_query, useOrientation) ==
  LET template_info == prepareTemplate(img_template)
      query_info == prepareQuery(img_query)
      chamferMapWidth  == query_info.m_distImg.cols - template_info.m_distImg.cols + 1
      chamferMapHeight == query_info.m_distImg.rows - template_info.m_distImg.rows + 1
      b == SearchBounds(template_info, m_matchingStrategyType, chamferMapWidth,
                        chamferMapHeight)
      filled(v) == [rows |-> chamferMapHeight, cols |-> chamferMapWidth,
                    at |-> [i \in 0..(chamferMapHeight - 1) |->
                              [j \in 0..(chamferMapWidth - 1) |-> v] @@ <<>>] @@ <<>>]
  IN  /\ \A thread \in Threads : t_pc[thread].loop = "idle"
      /\ chamferMapWidth > 0 /\ chamferMapHeight > 0
      /\ call' = "computeMatchingMap"
      /\ t_run' = [template_info |-> template_info, query_info |-> query_info,
                   useOrientation |-> useOrientation, startI |-> b.startI,
                   endI |-> b.endI, startJ |-> b.startJ, endJ |-> b.endJ]
      /\ t_chamferMap' = filled(FracOfInt(FltMax))
      /\ t_rejection_mask' = filled(1)
      /\ t_todo' = [loop \in {"filter", "evaluate"} |-> Visited(b.startI, b.endI, yStep)]
      /\ t_pc' = [thread \in Threads |-> [loop |-> "filter", busy |-> FALSE, i |-> 0, j |-> 0]]
      /\ t_log' = {}
      /\ UNCHANGED <<storeVars, searchVars, cerr, g_detections, g_overlapPercentage,
                     g_clustered, g_grouped, g_done, n_maxima, extractVars, chamferVars,
                     dispatchVars, t_result>>

\* Lines 433-434 and 464-466: a thread is handed a row of the loop it is in
\* and starts at the first column.
takeRow(thread) ==
  /\ t_pc[thread].loop \in {"filter", "evaluate"}
  /\ ~t_pc[thread].busy
  /\ \E i \in t_todo[t_pc[thread].loop] :
       /\ t_todo' = [t_todo EXCEPT ![t_pc[thread].loop] = @ \ {i}]
       /\ t_pc' = [t_pc EXCEPT ![thread] = [@ EXCEPT !.busy = t_run.startJ < t_run.endJ,
                                                       !.i = i, !.j = t_run.startJ]]
  /\ UNCHANGED <<storeVars, searchVars, call, cerr, g_detections, g_overlapPercentage,
                 g_clustered, g_grouped, g_done, n_maxima, extractVars, chamferVars,
                 dispatchVars, t_run, t_rejection_mask, t_chamferMap, t_log, t_result>>

\* Lines 436-458: one cell of the row in the first loop, then j += xStep.
filterCell(thread) ==
  LET i == t_pc[thread].i
      j == t_pc[thread].j
      nbMatches == nbDescriptorMatches(t_run.template_info, t_run.query_info, i, j)
  IN  /\ t_pc[thread].loop = "filter" /\ t_pc[thread].busy
      /\ IF rejected(nbMatches)
         THEN /\ t_rejection_mask' = [t_rejection_mask EXCEPT !.at[i][j] = 0]
              /\ t_log' = t_log \cup {[thread |-> thread, matrix |-> "rejection_mask",
                                       write |-> TRUE, i |-> i, j |-> j, settled |-> TRUE]}
         ELSE UNCHANGED <<t_rejection_mask, t_log>>
      /\ t_pc' = [t_pc EXCEPT ![thread] = [@ EXCEPT !.j = j + xStep,
                                                      !.busy = j + xStep < t_run.endJ]]
      /\ UNCHANGED <<storeVars, searchVars, call, cerr, g_detections, g_overlapPercentage,
                     g_clustered, g_grouped, g_done, n_maxima, extractVars, chamferVars,
                     dispatchVars, t_run, t_todo, t_chamferMap, t_result>>

\* Lines 467-498: one cell of the row in the second loop, then j += xStep.
evaluateCell(thread) ==
  LET i == t_pc[thread].i
      j == t_pc[thread].j
      \* The first loop is through with the cell: its row is taken and the
      \* thread that took it is past the column.
      filtered ==
        /\ i \notin t_todo["filter"]
        /\ \A other \in Threads :
             ~(t_pc[other].loop = "filter" /\ t_pc[other].busy /\ t_pc[other].i = i
                 /\ t_pc[other].j <= j)
      read == [thread |-> thread, matrix |-> "rejection_mask", write |-> FALSE,
               i |-> i, j |-> j, settled |-> filtered]
  IN  /\ t_pc[thread].loop = "evaluate" /\ t_pc[thread].busy
      /\ IF t_rejection_mask.at[i][j] = 0
         THEN /\ t_log' = t_log \cup {read}
              /\ UNCHANGED t_chamferMap
         ELSE /\ t_chamferMap' = [t_chamferMap EXCEPT !.at[i][j] =
                   computeChamferDistance(t_run.template_info, t_run.query_info,
                     m_matchingType, j, i, t_run.useOrientation, 1, 1, 1, 0)]
              /\ t_log' = t_log \cup {read, [thread |-> thread, matrix |-> "chamferMap",
                                             write |-> TRUE, i |-> i, j |-> j,
                                             settled |-> TRUE]}
      /\ t_pc' = [t_pc EXCEPT ![thread] = [@ EXCEPT !.j = j + xStep,
                                                      !.busy = j + xStep < t_run.endJ]]
      /\ UNCHANGED <<storeVars, searchVars, call, cerr, g_detections, g_overlapPercentage,
                     g_clustered, g_grouped, g_done, n_maxima, extractVars, chamferVars,
                     dispatchVars, t_run, t_todo, t_rejection_mask, t_result>>

\* The end of a parallel loop (lines 460 and 528): a thread with no row left
\* to take arrives at the end of the loop, and leaves it when the team has
\* arrived.
leaveLoop(thread) ==
  /\ ~t_pc[thread].busy
  /\ \/ /\ t_pc[thread].loop \in {"filter", "evaluate"}
        /\ t_todo[t_pc[thread].loop] = {}
        /\ t_pc' = [t_pc EXCEPT ![thread].loop = IF @ = "filter" THEN "filtered" ELSE "evaluated"]
     \/ /\ t_pc[thread].loop \in {"filtered", "evaluated"}
        /\ barrier(t_pc, IF t_pc[thread].loop = "filtered" THEN "filter" ELSE "evaluate")
        /\ t_pc' = [t_pc EXCEPT ![thread].loop = IF @ = "filtered" THEN "evaluate" ELSE "done"]
  /\ UNCHANGED <<storeVars, searchVars, call, cerr, g_detections, g_overlapPercentage,
                 g_clustered, g_grouped, g_done, n_maxima, extractVars, chamferVars,
                 dispatchVars, t_run, t_todo, t_rejection_mask, t_chamferMap, t_log,
                 t_result>>

\* detect_impl, lines 582-593: computeMatchingMap has returned on the master
\* thread and the extractor reads the map (minMaxLoc).
readMap ==
  /\ t_pc[1].loop = "done"
  /\ t_result' = t_chamferMap
  /\ t_log' = t_log \cup
       {[thread |-> 1, matrix |-> "chamferMap", write |-> FALSE, i |-> i, j |-> j,
         settled |-> \A thread \in Threads :
                       t_pc[thread].loop \in {"evaluated", "done", "returned"}] :
          i \in 0..(t_chamferMap.rows - 1), j \in 0..(t_chamferMap.cols - 1)}
  /\ t_pc' = [t_pc EXCEPT ![1].loop = "returned"]
  /\ UNCHANGED <<storeVars, searchVars, call, cerr, g_detections, g_overlapPercentage,
                 g_clustered, g_grouped, g_done, n_maxima, extractVars, chamferVars,
                 dispatchVars, t_run, t_todo, t_rejection_mask, t_chamferMap>>

\* The queries are 9 by 7 images with edges in rows 0 and 5: the 4 by 2
\* template gives a map of 6 by 6 cells, rows 0 and 5 and columns 0 and 5 of
\* which are visited.
NextThreads ==
  \/ \E lit \in {<<1..4, {}, 6..9>>, <<1..2, 1..2, 6..9>>}, useOrientation \in BOOLEAN :
       startMatching(TplGray,
                     Mat(7, 9, 1, [k \in 1..63 |->
                           IF \/ k \in 1..9 /\ k \in lit[1]
                              \/ k \in 10..18 /\ (k - 9) \in lit[2]
                              \/ k \in 46..54 /\ (k - 45) \in lit[3]
                           THEN 255 ELSE 0]),
                     useOrientation)
  \/ \E thread \in Threads : takeRow(thread)
  \/ \E thread \in Threads : filterCell(thread)
  \/ \E thread \in Threads : evaluateCell(thread)
  \/ \E thread \in Threads : leaveLoop(thread)
  \/ readMap

SpecThreads == Init /\ [][NextThreads]_vars

\* C23: under every interleaving of the threads, no cell of the cost map and
\* no cell of the rejection mask is written by two threads, a thread of the
\* second loop reads a cell of the mask only after the first loop is through
\* with it, the extractor reads the cost map only when every thread is
\* through the second loop, and the map it reads is the map of the
\* sequential run.
C23_ParallelRowsAsSequential ==
  /\ \A a \in t_log, b \in t_log :
       (a.write /\ b.write /\ a.matrix = b.matrix /\ a.i = b.i /\ a.j = b.j) =>
         a.thread = b.thread
  /\ \A a \in t_log : a.settled
  /\ t_pc[1].loop = "returned" =>
       t_result = computeMatchingMap(t_run.template_info, t_run.query_info,
                                     m_matchingStrategyType, t_run.useOrientation, 1, 1, 1)

\* The extractor has read a map that two threads have written, with a cell
\* the filter rejected.
C23_TwoThreadsWroteTheMap ==
  /\ t_pc[1].loop = "returned"
  /\ \E a \in t_log, b \in t_log :
       a.matrix = "chamferMap" /\ b.matrix = "chamferMap" /\ a.write /\ b.write
         /\ a.thread # b.thread
  /\ \E a \in t_log : a.matrix = "rejection_mask" /\ a.write

=============================================================================
